---- MODULE Spec2Model ----
(***************************************************************************)
(* Model of the neoflow agent orchestrator (src/neoflow/agent/agent.py),   *)
(* its loop detector (loop_detector.py), the task list                     *)
(* (task_manager.py, task_executor.py) and the model-request retry policy  *)
(* (llm_error_handler.py).                                                 *)
(***************************************************************************)
EXTENDS Integers, Sequences, FiniteSets, TLC

(* ------------------------------------------------------------------ *)
(* Bounds of the model                                                *)
(* ------------------------------------------------------------------ *)
\* largest task queue the planner returns in the model
MaxTasks == 2
\* tool dispatches per inner loop (caps LoopDetector.iteration_count)
MaxDispatch == 6
\* LoopDetector configuration used by the orchestrator runs of the model
CfgMaxIterations == 5
CfgWindowSize == 1
CfgRepetitionThreshold == 2
CfgErrorThreshold == 2
CfgPatternLength == 1
\* record_task_resolution calls made on one TaskList
MaxResolutions == 3
\* ContextOptimizer(token_threshold=...), in the model's token unit
CfgTokenThreshold == 8
\* ContextOptimizer(large_message_ratio=...), in percent
CfgLargeRatioPct == 90
\* config.agent.compression_min_tokens, in the model's token unit
CfgCompressionMinTokens == 4
\* longest transcript explored
MaxMessages == 13
\* tool results a transcript holds at once
MaxResults == 3
\* distinct repeated phrases in a text handed to compress_text
MaxPatterns == 11
\* record_action calls made on one LoopDetector driven directly
MaxRecords == 6
\* tools one tool pack holds
MaxPackTools == 2
\* threads started by run_llm_with_cancel in one run
MaxWorkers == 5

(* ------------------------------------------------------------------ *)
(* Program constants                                                  *)
(* ------------------------------------------------------------------ *)
\* retry_llm_request(..., max_retries: int = 3)
max_retries == 3
\* _pass_dedup_assistant keeps the last 10 assistant messages
KeepAssistant == 10
\* _pass_token_summarization keeps the first 4 and the last 4 messages
KeepHead == 4
KeepTail == 4
\* defaults of compress_text, the values add_message calls it with
min_pattern_length == 10
min_occurrences == 3
max_dictionary_size == 100
\* should_ask_for_intervention: iterations_since_last >= 5
InterventionGap == 5
\* defaults of AgentConfig (config.py): max_iterations,
\* loop_action_window_size, loop_repetition_threshold, loop_error_threshold,
\* loop_pattern_length
AgentConfig_max_iterations == 200
AgentConfig_loop_action_window_size == 20
AgentConfig_loop_repetition_threshold == 8
AgentConfig_loop_error_threshold == 8
AgentConfig_loop_pattern_length == 10

\* _AGENT_TOOLS of agent.py
AGENT_TOOLS ==
    {"run_command", "write_file", "read_file", "edit_file", "delete_file",
     "search_code", "search_documentation", "search_tickets", "ask_chat",
     "ask_user", "notebook_search", "notebook_add", "notebook_remove",
     "mark_task_done", "done"}

\* security_level class attributes of the tool definitions: run_command is
\* "approval", the other built-in tools are "safe"; release_tag_create is a
\* tool of an installable pack declared "unsafe"
SecurityLevel(name) ==
    CASE name = "run_command" -> "approval"
      [] name = "release_tag_create" -> "unsafe"
      [] OTHER -> "safe"

\* keys _params_similar looks at
KeyParams == {"path", "query", "command", "pattern"}

\* str.lower() on the parameter values of the model
Lower(v) == IF v = "A" THEN "a" ELSE v

Min(a, b) == IF a < b THEN a ELSE b

(* ------------------------------------------------------------------ *)
(* LoopDetector                                                       *)
(* ------------------------------------------------------------------ *)
\* LoopDetector.__init__
NewLoopDetector(mi, ws, rt, et, pl) ==
    [max_iterations |-> mi, action_window_size |-> ws,
     repetition_threshold |-> rt, error_threshold |-> et,
     pattern_length |-> pl,
     iteration_count |-> 0, action_history |-> <<>>,
     consecutive_errors |-> 0, last_user_intervention |-> 0]

\* deque(maxlen=n).append
DequeAppend(q, x, n) ==
    IF n = 0 THEN <<>>
    ELSE IF Len(q) < n THEN Append(q, x)
    ELSE Append(SubSeq(q, 2, Len(q)), x)

\* LoopDetector.record_action; an ActionRecord keeps the action name and the
\* parameters (result_summary and was_error are stored but never read)
RecordAction(ld, name, params, was_error) ==
    [ld EXCEPT !.iteration_count = @ + 1,
               !.consecutive_errors = IF was_error THEN @ + 1 ELSE 0,
               !.action_history =
                   DequeAppend(@, [action_name |-> name, parameters |-> params],
                               ld.action_window_size)]

\* LoopDetector._params_similar; a parameter dict is a set of <<key, value>>
ParamsSimilar(p1, p2) ==
    LET k1 == {x \in p1 : x[1] \in KeyParams}
        k2 == {x \in p2 : x[1] \in KeyParams}
    IN  IF k1 = k2 THEN TRUE
        ELSE IF k1 = {} \/ k2 = {} THEN FALSE
        ELSE \E x \in k1, y \in k2 : x[1] = y[1] /\ Lower(x[2]) = Lower(y[2])

NoLoop == [is_loop_detected |-> FALSE, loop_type |-> "none", severity |-> "warning"]

\* variant: one record fewer than repetition_threshold is looked at
DetectActionRepetition_oneFewer(ld) ==
    LET h == ld.action_history
        n == ld.repetition_threshold - 1
    IN  IF Len(h) < n \/ n <= 0 THEN NoLoop
        ELSE
          LET recent == SubSeq(h, Len(h) - n + 1, Len(h))
              first == recent[1]
              same(a) == a.action_name = first.action_name
                         /\ ParamsSimilar(a.parameters, first.parameters)
          IN  IF \A j \in 1..Len(recent) : same(recent[j])
              THEN [is_loop_detected |-> TRUE, loop_type |-> "action_repetition",
                    severity |-> "warning"]
              ELSE NoLoop

\* LoopDetector._detect_action_repetition
DetectActionRepetition(ld) ==
    LET h == ld.action_history
        n == ld.repetition_threshold
    IN  IF Len(h) < n \/ n = 0 THEN NoLoop
        ELSE
          LET recent == SubSeq(h, Len(h) - n + 1, Len(h))
              first == recent[1]
              same(a) == a.action_name = first.action_name
                         /\ ParamsSimilar(a.parameters, first.parameters)
              total_count == Cardinality({j \in 1..Len(h) : same(h[j])})
          IN  IF \A j \in 1..Len(recent) : same(recent[j])
              THEN [is_loop_detected |-> TRUE, loop_type |-> "action_repetition",
                    severity |-> IF total_count < n + 2 THEN "warning" ELSE "critical"]
              ELSE NoLoop

\* the inner for-loop of _detect_pattern: chunks equal to the pattern, counted
\* from offset k * L until the first chunk that differs
RECURSIVE Repetitions(_, _, _)
Repetitions(names, L, k) ==
    IF k * L >= Len(names) THEN 0
    ELSE IF SubSeq(names, k * L + 1, Min(k * L + L, Len(names))) = SubSeq(names, 1, L)
         THEN 1 + Repetitions(names, L, k + 1)
         ELSE 0

\* variant: one repetition more is asked for before a pattern is reported
DetectPattern_threeRepetitions(ld) ==
    LET h == ld.action_history
        pl == ld.pattern_length
    IN  IF Len(h) < pl * 2 \/ pl = 0 THEN NoLoop
        ELSE
          LET start == IF Len(h) > pl * 3 THEN Len(h) - pl * 3 + 1 ELSE 1
              recent == SubSeq(h, start, Len(h))
              names == [j \in 1..Len(recent) |-> recent[j].action_name]
              hits == {L \in pl..(Len(recent) \div 2) : Repetitions(names, L, 1) >= 3}
          IN  IF hits = {} THEN NoLoop
              ELSE [is_loop_detected |-> TRUE, loop_type |-> "pattern",
                    severity |-> "critical"]

\* LoopDetector._detect_pattern
DetectPattern(ld) ==
    LET h == ld.action_history
        pl == ld.pattern_length
    IN  IF Len(h) < pl * 2 \/ pl = 0 THEN NoLoop
        ELSE
          LET start == IF Len(h) > pl * 3 THEN Len(h) - pl * 3 + 1 ELSE 1
              recent == SubSeq(h, start, Len(h))
              names == [j \in 1..Len(recent) |-> recent[j].action_name]
              hits == {L \in pl..(Len(recent) \div 2) : Repetitions(names, L, 1) >= 2}
          IN  IF hits = {} THEN NoLoop
              ELSE LET L == CHOOSE x \in hits : \A y \in hits : x <= y
                   IN [is_loop_detected |-> TRUE, loop_type |-> "pattern",
                       severity |-> IF Repetitions(names, L, 1) = 2
                                    THEN "warning" ELSE "critical"]

\* variant: the error streak is looked at before the iteration count
CheckForLoops_errorFirst(ld) ==
    IF ld.consecutive_errors >= ld.error_threshold
    THEN [is_loop_detected |-> TRUE, loop_type |-> "error_cycle", severity |-> "critical"]
    ELSE IF ld.iteration_count >= ld.max_iterations
    THEN [is_loop_detected |-> TRUE, loop_type |-> "iteration_limit", severity |-> "critical"]
    ELSE IF DetectActionRepetition(ld).is_loop_detected
    THEN DetectActionRepetition(ld)
    ELSE DetectPattern(ld)

\* LoopDetector.check_for_loops
CheckForLoops(ld) ==
    IF ld.iteration_count >= ld.max_iterations
    THEN [is_loop_detected |-> TRUE, loop_type |-> "iteration_limit", severity |-> "critical"]
    ELSE IF ld.consecutive_errors >= ld.error_threshold
    THEN [is_loop_detected |-> TRUE, loop_type |-> "error_cycle", severity |-> "critical"]
    ELSE IF Len(ld.action_history) >= ld.repetition_threshold
            /\ DetectActionRepetition(ld).is_loop_detected
    THEN DetectActionRepetition(ld)
    ELSE IF Len(ld.action_history) >= ld.pattern_length * 2
            /\ DetectPattern(ld).is_loop_detected
    THEN DetectPattern(ld)
    ELSE NoLoop

\* variant: the iterations are counted from the start of the loop
ShouldAskForIntervention_sinceStart(ld) ==
    ld.iteration_count >= InterventionGap

\* LoopDetector.should_ask_for_intervention
ShouldAskForIntervention(ld) ==
    ld.iteration_count - ld.last_user_intervention >= InterventionGap

\* variant: an intervention also restarts the iteration count
MarkIntervention_resetsCount(ld) ==
    [ld EXCEPT !.last_user_intervention = 0,
               !.iteration_count = 0,
               !.consecutive_errors = 0]

\* LoopDetector.mark_intervention
MarkIntervention(ld) ==
    [ld EXCEPT !.last_user_intervention = ld.iteration_count,
               !.consecutive_errors = 0]

(* ------------------------------------------------------------------ *)
(* State of one run_agent call                                        *)
(* ------------------------------------------------------------------ *)
VARIABLES
    pc,                 \* where run_agent is: a suspension point or a loop head
    outcome,            \* how run_agent left: running, done, completed, cancelled, escaped
    unsafe_mode,        \* config.agent.unsafe_mode
    session_approved,   \* _RUN_COMMANDS_AUTO_APPROVED_SESSION
    query_approved,     \* query_confirmation_state["run_command_approved"]
    task_queue,         \* planner result: [planned, tasks]
    i,                  \* index of the task being processed (task_id is task_<i>)
    pre_completed,      \* task id -> summary recorded by mark_task_done
    resolutions,        \* TaskList.resolutions
    tasks_status,       \* TaskList.tasks[k].status
    loop_detector,      \* the LoopDetector of the running inner loop
    retry_count,        \* retry_llm_request.retry_count
    action,             \* the parsed action of the step in progress
    result,             \* the tool result awaiting its "Action result" message
    step_msgs,          \* messages add_message appended during the latest step
    step_reply,         \* kind of the model reply of the latest step
    step_choice,        \* answer given at the approval or retry prompt of the latest step
    step_end,           \* how the latest step ended (none while it is in progress)
    last_dispatch,      \* the _execute_action call of the latest step
    tool_raised,        \* the tool of the latest step raised an exception
    cancel_pending,     \* a cancellation (Ctrl+C / EOF) was raised and no model
                        \* call or tool dispatch has followed it yet
    call_after_cancel,  \* the step just taken called the model or dispatched a
                        \* tool while a cancellation was pending
    abort_pending,      \* the user chose abort (intervention) or /exit (approval)
                        \* and no inner loop has been started since
    start_after_abort,  \* the step just taken started an inner loop while an
                        \* abort was pending
    last_marked,        \* task id -> summary last marked while the task was ahead
    messages,           \* the transcript a ContextOptimizer works on
    sent,               \* the backend request made by the latest optimizer or
                        \* completion call (purpose none when it made none)
    text,               \* the text handed to compress_text
    compression_result, \* the CompressionResult of compress_text(text)
    decompressed,       \* decompress_text of that result (Absent before the call)
    registry,           \* ToolRegistry._tools: tool name -> ToolDefinition
    llm_calls,          \* the Planner._call_llm calls of the latest maybe_plan
    workers,            \* the threads run_llm_with_cancel started for the
                        \* retry_llm_request call in progress, oldest first:
                        \* running, replied or raised
    returned,           \* what the latest library call returned or raised
    unoptimized         \* add_message calls since the latest optimize call

vars == <<pc, outcome, unsafe_mode, session_approved, query_approved, task_queue,
          i, pre_completed, resolutions, tasks_status, loop_detector, retry_count,
          action, result, step_msgs, step_reply, step_choice, step_end,
          last_dispatch, tool_raised, cancel_pending, call_after_cancel,
          abort_pending, start_after_abort, last_marked,
          messages, sent, text, compression_result, decompressed,
          registry, llm_calls, workers, returned, unoptimized>>

config_vars == <<unsafe_mode, task_queue>>
approval_vars == <<session_approved, query_approved>>
task_vars == <<i, resolutions, tasks_status>>
step_vars == <<step_msgs, step_reply, step_choice, step_end, last_dispatch, tool_raised>>
optimizer_vars == <<messages, sent>>
compression_vars == <<text, compression_result, decompressed>>
library_vars == <<registry, llm_calls, workers, returned, unoptimized>>

TaskIds == 1..MaxTasks
\* marks a task id that is not a key of a dict
Absent == "<absent>"
NoAction == [name |-> "none", params |-> {}, task_id |-> 0, summary |-> ""]
NoDispatch == [name |-> "none", choice |-> "none", session_before |-> FALSE,
               query_before |-> FALSE]
\* no backend request
NoRequest == [purpose |-> "none", compressed |-> FALSE, provenance |-> FALSE]
\* no library call has returned anything
NoReturn == [call |-> "none", value |-> Absent]
\* no CompressionResult yet
NoCompression == [compressed_text |-> <<>>, dictionary |-> <<>>]

\* summaries the model puts in a done action ("" is an empty summary; a missing
\* key yields the non-empty default "Task completed.", which behaves as "s1")
DoneSummaries == {"", "s1"}
\* summaries of mark_task_done (a missing key yields the default)
MarkSummaries == {"m1"}

\* the replies the model backend produces: text without an action (long or
\* short), and JSON objects with an "action" key
Replies ==
    {[name |-> n, params |-> {}, task_id |-> 0, summary |-> ""] :
        n \in {"noaction_long", "noaction_short", "unhashable", "bogus_tool",
               "release_tag_create", "ask_user"}}
    \cup {[name |-> "done", params |-> {}, task_id |-> 0, summary |-> s] :
            s \in DoneSummaries}
    \cup {[name |-> "run_command", params |-> {<<"command", "a">>},
           task_id |-> 0, summary |-> ""]}
    \cup {[name |-> "mark_task_done", params |-> {}, task_id |-> t, summary |-> s] :
            t \in 0..MaxTasks, s \in MarkSummaries}

\* the loop detector run_agent builds from config.agent
ConfiguredDetector ==
    NewLoopDetector(CfgMaxIterations, CfgWindowSize, CfgRepetitionThreshold,
                    CfgErrorThreshold, CfgPatternLength)

Multi == task_queue.planned
NumTasks == Len(task_queue.tasks)

\* run_agent up to the planning call; the session flag is process-wide and may
\* have been set by an earlier run_agent call of the same CLI session
Init ==
    /\ pc = "plan"
    /\ outcome = "running"
    /\ unsafe_mode \in BOOLEAN
    /\ session_approved \in BOOLEAN
    /\ query_approved = FALSE
    /\ task_queue = [planned |-> FALSE, tasks |-> <<>>]
    /\ i = 0
    /\ pre_completed = [t \in TaskIds |-> Absent]
    /\ resolutions = <<>>
    /\ tasks_status = <<>>
    /\ loop_detector = ConfiguredDetector
    /\ retry_count = 0
    /\ action = NoAction
    /\ result = "none"
    /\ step_msgs = <<>>
    /\ step_reply = "none"
    /\ step_choice = "none"
    /\ step_end = "none"
    /\ last_dispatch = NoDispatch
    /\ tool_raised = FALSE
    /\ cancel_pending = FALSE
    /\ call_after_cancel = FALSE
    /\ abort_pending = FALSE
    /\ start_after_abort = FALSE
    /\ last_marked = [t \in TaskIds |-> Absent]
    /\ messages = <<>>
    /\ sent = NoRequest
    /\ text = <<>>
    /\ compression_result = NoCompression
    /\ decompressed = Absent
    /\ registry = <<>>
    /\ llm_calls = <<>>
    /\ workers = <<>>
    /\ returned = NoReturn
    /\ unoptimized = 0

(* ------------------------------------------------------------------ *)
(* How a step leaves _agent_step                                      *)
(* ------------------------------------------------------------------ *)
\* variant: a new resolution is put in front of the list
AddResolution_prepend(res, status, task_id, task_description, resolution, notes) ==
    [resolutions |-> <<[task_id |-> task_id,
                        task_description |-> task_description,
                        resolution |-> resolution, notes |-> notes]>> \o res,
     tasks_status |-> [k \in DOMAIN status |->
                          IF k = task_id THEN "completed" ELSE status[k]]]

\* variant: the resolution is appended and the task's status is left alone
AddResolution_noStatus(res, status, task_id, task_description, resolution, notes) ==
    [resolutions |-> Append(res, [task_id |-> task_id,
                                  task_description |-> task_description,
                                  resolution |-> resolution, notes |-> notes]),
     tasks_status |-> status]

\* TaskList.add_resolution through TaskExecutor.record_task_resolution
AddResolution(res, status, task_id, task_description, resolution, notes) ==
    [resolutions |-> Append(res, [task_id |-> task_id,
                                  task_description |-> task_description,
                                  resolution |-> resolution, notes |-> notes]),
     tasks_status |-> [k \in DOMAIN status |->
                          IF k = task_id THEN "completed" ELSE status[k]]]

\* _agent_step returns: the while True loop calls it again
Continue ==
    /\ pc' = "llm"
    /\ retry_count' = 0
    /\ outcome' = outcome
    /\ UNCHANGED task_vars

\* variant: the task loop does not advance after a task's loop ended
AgentDone_sameTask(res) ==
    /\ retry_count' = 0
    /\ IF Multi
       THEN /\ pc' = "task_head"
            /\ outcome' = outcome
            /\ i' = i
            /\ IF res \notin {"", "None"}
               THEN LET r == AddResolution(resolutions, tasks_status, i, task_queue.tasks[i],
                                         res, "discoveries")
                    IN  resolutions' = r.resolutions /\ tasks_status' = r.tasks_status
               ELSE UNCHANGED <<resolutions, tasks_status>>
       ELSE /\ pc' = "ended"
            /\ outcome' = "done"
            /\ UNCHANGED task_vars

\* _AgentDone(res) is raised: the inner except of multi-task mode records the
\* resolution when res is truthy and goes on with the next task; in
\* single-task mode the outer except ends run_agent
AgentDone(res) ==
    /\ retry_count' = 0
    /\ IF Multi
       THEN /\ pc' = "task_head"
            /\ outcome' = outcome
            /\ i' = i + 1
            /\ IF res \notin {"", "None"}
               THEN LET r == AddResolution(resolutions, tasks_status, i, task_queue.tasks[i],
                                         res, "discoveries")
                    IN  resolutions' = r.resolutions /\ tasks_status' = r.tasks_status
               ELSE UNCHANGED <<resolutions, tasks_status>>
       ELSE /\ pc' = "ended"
            /\ outcome' = "done"
            /\ UNCHANGED task_vars

\* AgentCancelled reaches the except of run_agent
Cancelled ==
    /\ pc' = "ended"
    /\ outcome' = "cancelled"
    /\ retry_count' = 0
    /\ UNCHANGED task_vars

\* an exception no except clause of run_agent names leaves run_agent
Escapes ==
    /\ pc' = "ended"
    /\ outcome' = "escaped"
    /\ retry_count' = 0
    /\ UNCHANGED task_vars

\* the step made no model call, dispatched no tool and started no inner loop
Quiet ==
    /\ call_after_cancel' = FALSE
    /\ start_after_abort' = FALSE

(* ------------------------------------------------------------------ *)
(* Planning and the task loop                                         *)
(* ------------------------------------------------------------------ *)
\* planner.maybe_plan and initialize_from_task_queue (run_agent 112-122): the
\* planner returns None or a queue of n tasks, or its model call fails or is
\* cancelled, outside the try block of run_agent
Plan(out, n) ==
    /\ pc = "plan"
    /\ CASE out = "none" ->
              /\ pc' = "llm"
              /\ UNCHANGED <<outcome, task_queue, i, tasks_status, cancel_pending>>
         [] out = "queue" ->
              /\ pc' = "task_head"
              /\ task_queue' = [planned |-> TRUE, tasks |-> [k \in 1..n |-> k]]
              /\ tasks_status' = [k \in 1..n |-> "pending"]
              /\ i' = 1
              /\ UNCHANGED <<outcome, cancel_pending>>
         [] out = "error" ->
              /\ pc' = "ended" /\ outcome' = "escaped"
              /\ UNCHANGED <<task_queue, i, tasks_status, cancel_pending>>
         [] out = "cancel" ->
              /\ pc' = "ended" /\ outcome' = "escaped"
              /\ cancel_pending' = TRUE
              /\ UNCHANGED <<task_queue, i, tasks_status>>
    /\ Quiet
    /\ UNCHANGED <<unsafe_mode, approval_vars, pre_completed, resolutions,
                   loop_detector, retry_count, action, result, step_vars,
                   abort_pending, last_marked>>
    /\ UNCHANGED <<optimizer_vars, compression_vars, library_vars>>

\* variant: the task loop never looks at pre_completed
IsPreCompleted_never(t) == FALSE

\* task_id in pre_completed (agent.py 135)
IsPreCompleted(t) == pre_completed[t] # Absent

\* run_agent 134-149: the task was marked done ahead of schedule
SkipPreCompleted ==
    /\ pc = "task_head"
    /\ i <= NumTasks
    /\ IsPreCompleted(i)
    /\ LET r == AddResolution(resolutions, tasks_status, i, task_queue.tasks[i],
                           pre_completed[i], "ahead")
       IN  resolutions' = r.resolutions /\ tasks_status' = r.tasks_status
    /\ i' = i + 1
    /\ Quiet
    /\ UNCHANGED <<pc, outcome, config_vars, approval_vars, pre_completed,
                   loop_detector, retry_count, action, result, step_vars,
                   cancel_pending, abort_pending, last_marked>>
    /\ UNCHANGED <<optimizer_vars, compression_vars, library_vars>>

\* run_agent 151-215: fresh transcript, optimizer and loop detector (nothing of
\* the previous task's last step is left), then the inner while True loop
StartTask ==
    /\ pc = "task_head"
    /\ i <= NumTasks
    /\ ~IsPreCompleted(i)
    /\ pc' = "llm"
    /\ loop_detector' = ConfiguredDetector
    /\ retry_count' = 0
    /\ start_after_abort' = abort_pending
    /\ abort_pending' = FALSE
    /\ call_after_cancel' = FALSE
    /\ action' = NoAction
    /\ result' = "none"
    /\ step_msgs' = <<>>
    /\ step_reply' = "none"
    /\ step_choice' = "none"
    /\ step_end' = "none"
    /\ last_dispatch' = NoDispatch
    /\ tool_raised' = FALSE
    /\ UNCHANGED <<outcome, config_vars, approval_vars, task_vars, pre_completed,
                   cancel_pending, last_marked>>
    /\ UNCHANGED <<optimizer_vars, compression_vars, library_vars>>

\* run_agent 244-262: get_final_synthesis calls the model when a resolution
\* exists (its failure falls back to the summary text), then run_agent returns
FinalSynthesis ==
    /\ pc = "task_head"
    /\ i > NumTasks
    /\ pc' = "ended"
    /\ outcome' = "completed"
    /\ call_after_cancel' = (cancel_pending /\ resolutions # <<>>)
    /\ cancel_pending' = (cancel_pending /\ resolutions = <<>>)
    /\ start_after_abort' = FALSE
    /\ UNCHANGED <<config_vars, approval_vars, task_vars, pre_completed,
                   loop_detector, retry_count, action, result, step_vars,
                   abort_pending, last_marked>>
    /\ UNCHANGED <<optimizer_vars, compression_vars, library_vars>>

(* ------------------------------------------------------------------ *)
(* One iteration of the agent loop: _agent_step                       *)
(* ------------------------------------------------------------------ *)
\* variant: the last attempt is detected one failure late
RetriesExhausted_late == retry_count > max_retries

\* retry_count >= max_retries (llm_error_handler.py 168)
RetriesExhausted == retry_count >= max_retries

\* retry_llm_request 160-181 with handle_llm_request_error 117-132: request_fn()
\* raises. A provider failure and the AgentCancelled that run_llm_with_cancel
\* raises on Ctrl+C are both caught by "except Exception"; the last attempt
\* raises LLMRequestError, which no except clause of run_agent names; before
\* that the user is asked to retry or abort (abort and a cancelled prompt raise
\* AgentCancelled)
LLMFail(kind, choice) ==
    /\ pc = "llm"
    /\ call_after_cancel' = cancel_pending
    /\ start_after_abort' = FALSE
    /\ IF RetriesExhausted
       THEN /\ choice = "none"
            /\ Escapes
            /\ cancel_pending' = (kind = "interrupt")
       ELSE CASE choice = "retry" ->
                   /\ pc' = "llm"
                   /\ retry_count' = retry_count + 1
                   /\ cancel_pending' = (kind = "interrupt")
                   /\ UNCHANGED <<outcome, task_vars>>
              [] choice = "abort" ->
                   /\ Cancelled
                   /\ cancel_pending' = (kind = "interrupt")
              [] choice = "cancel" ->
                   /\ Cancelled
                   /\ cancel_pending' = TRUE
              [] OTHER -> FALSE
    /\ step_msgs' = <<>>
    /\ step_reply' = "none"
    /\ step_choice' = choice
    /\ step_end' = "none"
    /\ last_dispatch' = NoDispatch
    /\ tool_raised' = FALSE
    /\ UNCHANGED <<config_vars, approval_vars, pre_completed, loop_detector,
                   action, result, abort_pending, last_marked>>
    /\ UNCHANGED <<optimizer_vars, compression_vars, library_vars>>

\* variant: run_command never asks
NeedsConfirmation_never == FALSE

\* config.agent.unsafe_mode / session flag / per-query flag (agent.py 424-428)
NeedsConfirmation ==
    ~unsafe_mode /\ ~session_approved /\ ~query_approved

\* variant: the allowed set also holds the tools of an installed pack
Allowed_withPack(name) == name \in AGENT_TOOLS \cup {"release_tag_create"}

\* act_name not in _AGENT_TOOLS (agent.py 398)
Allowed(name) == name \in AGENT_TOOLS

\* the ways a tool call ends
Outcomes == {"returns", "ok", "errtext", "raise", "cancel"}

\* what a tool call can produce: a result text, a result text that contains
\* "error" or "failed", an exception, or (for a tool that prompts the user) an
\* AgentCancelled raised by the prompt
ToolOutcomes(name) ==
    CASE name = "mark_task_done" -> {"returns"}
      [] name = "ask_user" -> {"ok", "errtext", "raise", "cancel"}
      [] OTHER -> {"ok", "errtext", "raise"}

\* variant: an exception of the tool yields an ordinary result text
ExecuteAction_masksError(act, out) ==
    IF act.name = "mark_task_done"
    THEN IF act.task_id = 0 \/ ~Multi THEN "result_errtext" ELSE "result_ok"
    ELSE CASE out = "errtext" -> "result_errtext"
           [] OTHER -> "result_ok"

\* variant: mark_task_done does not look for the missing pre_completed dict
ExecuteAction_marksWithoutQueue(act, out) ==
    IF act.name = "mark_task_done"
    THEN IF act.task_id = 0 THEN "result_errtext" ELSE "result_ok"
    ELSE CASE out = "ok" -> "result_ok"
           [] out = "errtext" -> "result_errtext"
           [] out \in {"raise", "cancel"} -> "result_error"

\* _execute_action 706-775: the result text of the call; every Exception,
\* AgentCancelled included, becomes "Error: ..."
ExecuteAction(act, out) ==
    IF act.name = "mark_task_done"
    THEN IF act.task_id = 0 \/ ~Multi THEN "result_errtext" ELSE "result_ok"
    ELSE CASE out = "ok" -> "result_ok"
           [] out = "errtext" -> "result_errtext"
           [] out \in {"raise", "cancel"} -> "result_error"

\* was_error = "error" in result.lower() or "failed" in result.lower()
WasError(res) == res \in {"result_errtext", "result_error"}

\* _agent_step 470-519: dispatch of act, record in the loop detector, check for
\* loops; the result message is appended unless the intervention prompt comes
\* first. choice is the answer of the approval prompt of this step, sb and qb
\* the session and per-request flags when the step began
Dispatch(act, out, choice, sb, qb) ==
    /\ out \in ToolOutcomes(act.name)
    /\ LET res == ExecuteAction(act, out)
           ld == RecordAction(loop_detector, act.name, act.params, WasError(res))
       IN  /\ loop_detector' = ld
           /\ IF CheckForLoops(ld).is_loop_detected /\ ShouldAskForIntervention(ld)
              THEN /\ pc' = "intervene"
                   /\ result' = res
                   /\ step_msgs' = <<"assistant">>
                   /\ step_end' = "none"
                   /\ UNCHANGED <<outcome, retry_count, task_vars>>
              ELSE /\ Continue
                   /\ result' = "none"
                   /\ step_msgs' = <<"assistant", res>>
                   /\ step_end' = "continue"
    /\ IF act.name = "mark_task_done" /\ act.task_id # 0 /\ Multi
       THEN /\ pre_completed' = [pre_completed EXCEPT ![act.task_id] = act.summary]
            /\ last_marked' = IF act.task_id > i
                              THEN [last_marked EXCEPT ![act.task_id] = act.summary]
                              ELSE last_marked
       ELSE UNCHANGED <<pre_completed, last_marked>>
    /\ last_dispatch' = [name |-> act.name, choice |-> choice,
                         session_before |-> sb, query_before |-> qb]
    /\ tool_raised' = (out = "raise")
    /\ cancel_pending' = (out = "cancel")
    /\ action' = NoAction

\* the reply names a tool of the allowed set (agent.py 383-408 passed)
IsToolRequest(r) ==
    /\ r.name \notin {"noaction_long", "noaction_short", "unhashable", "done"}
    /\ Allowed(r.name)

\* _agent_step 328-519 up to its return or its first prompt: the reply
\* arrives, is appended and parsed; the step ends with a corrective message or
\* with done, stops at the approval prompt, or dispatches the tool
LLMReply(r, out) ==
    /\ pc = "llm"
    /\ call_after_cancel' = cancel_pending
    /\ start_after_abort' = FALSE
    /\ step_reply' = r.name
    /\ step_choice' = "none"
    /\ IF IsToolRequest(r) /\ ~(r.name = "run_command" /\ NeedsConfirmation)
       THEN /\ loop_detector.iteration_count < MaxDispatch
            /\ Dispatch(r, out, "none", session_approved, query_approved)
       ELSE /\ out = "none"
            /\ result' = "none"
            /\ tool_raised' = FALSE
            /\ cancel_pending' = FALSE
            /\ last_dispatch' = [NoDispatch EXCEPT !.session_before = session_approved,
                                                   !.query_before = query_approved]
            /\ UNCHANGED <<pre_completed, loop_detector, last_marked>>
            /\ CASE r.name = "noaction_long" ->
                      /\ step_msgs' = <<"assistant", "nudge">>
                      /\ step_end' = "continue"
                      /\ action' = NoAction
                      /\ Continue
                 [] r.name = "noaction_short" ->
                      /\ step_msgs' = <<"assistant", "format_retry">>
                      /\ step_end' = "continue"
                      /\ action' = NoAction
                      /\ Continue
                 [] r.name = "unhashable" ->
                      \* {"action": [...]}: the membership test on the set
                      \* raises TypeError
                      /\ step_msgs' = <<"assistant">>
                      /\ step_end' = "escaped"
                      /\ action' = NoAction
                      /\ Escapes
                 [] r.name = "done" ->
                      /\ step_msgs' = <<"assistant">>
                      /\ step_end' = "done"
                      /\ action' = r
                      /\ AgentDone(r.summary)
                 [] IsToolRequest(r) ->
                      \* run_command that needs confirmation
                      /\ loop_detector.iteration_count < MaxDispatch
                      /\ step_msgs' = <<"assistant">>
                      /\ step_end' = "none"
                      /\ action' = r
                      /\ pc' = "approve"
                      /\ UNCHANGED <<outcome, retry_count, task_vars>>
                 [] OTHER ->
                      \* a name outside _AGENT_TOOLS
                      /\ step_msgs' = <<"assistant", "reject">>
                      /\ step_end' = "continue"
                      /\ action' = NoAction
                      /\ Continue
    /\ UNCHANGED <<config_vars, approval_vars, abort_pending>>
    /\ UNCHANGED <<optimizer_vars, compression_vars, library_vars>>

\* _agent_step 430-519: the "Allow this command?" prompt and, once the command
\* is approved, its dispatch
Approve(choice, out) ==
    /\ pc = "approve"
    /\ step_choice' = choice
    /\ CASE choice = "/exit" ->
              /\ out = "none"
              /\ AgentDone("None")
              /\ step_end' = "done"
              /\ abort_pending' = TRUE
              /\ UNCHANGED <<approval_vars, cancel_pending>>
         [] choice = "cancel" ->
              /\ out = "none"
              /\ Cancelled
              /\ step_end' = "cancelled"
              /\ cancel_pending' = TRUE
              /\ UNCHANGED <<approval_vars, abort_pending>>
         [] choice = "n" ->
              /\ out = "none"
              /\ pc' = "feedback"
              /\ UNCHANGED <<outcome, retry_count, task_vars, step_end,
                             approval_vars, cancel_pending, abort_pending>>
         [] choice \in {"y", "a"} ->
              /\ session_approved' = (session_approved \/ choice = "a")
              /\ query_approved' = TRUE
              /\ Dispatch(action, out, choice, last_dispatch.session_before,
                          last_dispatch.query_before)
              /\ UNCHANGED abort_pending
    /\ choice \notin {"y", "a"} =>
          UNCHANGED <<pre_completed, loop_detector, action, result, step_msgs,
                      last_dispatch, tool_raised, last_marked>>
    /\ Quiet
    /\ UNCHANGED <<config_vars, step_reply>>
    /\ UNCHANGED <<optimizer_vars, compression_vars, library_vars>>

\* variant: a declined command ends the inner loop
Feedback_endsLoop(f) ==
    /\ pc = "feedback"
    /\ IF f = "cancel"
       THEN /\ Cancelled
            /\ step_end' = "cancelled"
            /\ cancel_pending' = TRUE
            /\ UNCHANGED step_msgs
       ELSE /\ AgentDone("None")
            /\ step_end' = "done"
            /\ step_msgs' = Append(step_msgs, "declined")
            /\ UNCHANGED cancel_pending
    /\ Quiet
    /\ UNCHANGED <<config_vars, approval_vars, pre_completed, loop_detector,
                   action, result, step_reply, step_choice, last_dispatch,
                   tool_raised, abort_pending, last_marked>>
    /\ UNCHANGED <<optimizer_vars, compression_vars, library_vars>>

\* _agent_step 452-461: the optional feedback prompt after "n"
Feedback(f) ==
    /\ pc = "feedback"
    /\ IF f = "cancel"
       THEN /\ Cancelled
            /\ step_end' = "cancelled"
            /\ cancel_pending' = TRUE
            /\ UNCHANGED step_msgs
       ELSE /\ Continue
            /\ step_end' = "continue"
            /\ step_msgs' = Append(step_msgs, "declined")
            /\ UNCHANGED cancel_pending
    /\ Quiet
    /\ UNCHANGED <<config_vars, approval_vars, pre_completed, loop_detector,
                   action, result, step_reply, step_choice, last_dispatch,
                   tool_raised, abort_pending, last_marked>>
    /\ UNCHANGED <<optimizer_vars, compression_vars, library_vars>>

\* _handle_loop_detection 628-686: the three-way prompt; a cancelled prompt is
\* treated as choice 3
Intervene(choice) ==
    /\ pc = "intervene"
    /\ CASE choice = "1" ->
              /\ pc' = "guidance"
              /\ UNCHANGED <<outcome, retry_count, task_vars, loop_detector, result,
                             step_msgs, step_end, cancel_pending, abort_pending>>
         [] choice = "2" ->
              /\ loop_detector' = MarkIntervention(loop_detector)
              /\ step_msgs' = Append(step_msgs, result)
              /\ result' = "none"
              /\ step_end' = "continue"
              /\ Continue
              /\ UNCHANGED <<cancel_pending, abort_pending>>
         [] choice \in {"3", "cancel"} ->
              /\ AgentDone("None")
              /\ step_end' = "done"
              /\ cancel_pending' = (cancel_pending \/ choice = "cancel")
              /\ abort_pending' = (abort_pending \/ choice = "3")
              /\ UNCHANGED <<loop_detector, result, step_msgs>>
    /\ Quiet
    /\ UNCHANGED <<config_vars, approval_vars, pre_completed, action,
                   step_reply, step_choice, last_dispatch, tool_raised, last_marked>>
    /\ UNCHANGED <<optimizer_vars, compression_vars, library_vars>>

\* _handle_loop_detection 648-676: the guidance prompt of choice 1, then back
\* in _agent_step the result message (506-519)
Guidance(g) ==
    /\ pc = "guidance"
    /\ CASE g \in {"/exit", "cancel"} ->
              /\ AgentDone("None")
              /\ step_end' = "done"
              /\ cancel_pending' = (cancel_pending \/ g = "cancel")
              /\ UNCHANGED <<loop_detector, result, step_msgs>>
         [] g = "text" ->
              /\ loop_detector' = MarkIntervention(loop_detector)
              /\ step_msgs' = step_msgs \o <<"guidance", result>>
              /\ result' = "none"
              /\ step_end' = "continue"
              /\ Continue
              /\ UNCHANGED cancel_pending
         [] g = "empty" ->
              /\ loop_detector' = MarkIntervention(loop_detector)
              /\ step_msgs' = Append(step_msgs, result)
              /\ result' = "none"
              /\ step_end' = "continue"
              /\ Continue
              /\ UNCHANGED cancel_pending
    /\ Quiet
    /\ UNCHANGED <<config_vars, approval_vars, pre_completed, action,
                   step_reply, step_choice, last_dispatch, tool_raised,
                   abort_pending, last_marked>>
    /\ UNCHANGED <<optimizer_vars, compression_vars, library_vars>>

(* ------------------------------------------------------------------ *)
(* Specification                                                      *)
(* ------------------------------------------------------------------ *)
Next ==
    \/ \E out \in {"none", "queue", "error", "cancel"}, n \in 1..MaxTasks : Plan(out, n)
    \/ SkipPreCompleted
    \/ StartTask
    \/ FinalSynthesis
    \/ \E kind \in {"error", "interrupt"},
          choice \in {"none", "retry", "abort", "cancel"} : LLMFail(kind, choice)
    \/ \E r \in Replies, out \in {"none"} \cup Outcomes : LLMReply(r, out)
    \/ \E choice \in {"y", "n", "a", "/exit", "cancel"},
          out \in {"none"} \cup Outcomes : Approve(choice, out)
    \/ \E f \in {"text", "empty", "cancel"} : Feedback(f)
    \/ \E choice \in {"1", "2", "3", "cancel"} : Intervene(choice)
    \/ \E g \in {"text", "empty", "/exit", "cancel"} : Guidance(g)

Spec == Init /\ [][Next]_vars

\* run_agent keeps running: a step is taken whenever one can be taken; what
\* the model backend and the user answer is left open
SpecFair == Spec /\ WF_vars(Next)

(* ------------------------------------------------------------------ *)
(* The ContextOptimizer on one transcript                             *)
(* ------------------------------------------------------------------ *)
\* A message is [role, content, tokens, source_action, compression_dict]:
\* content names what the text is ("compressed" is text in which patterns are
\* replaced by dictionary tokens), tokens is estimate_tokens(content),
\* source_action is the _source_action key ("none" when absent) and
\* compression_dict tells whether the _compression_dict key is present.
SystemMessage ==
    [role |-> "system", content |-> "system_prompt", tokens |-> 1,
     source_action |-> "none", compression_dict |-> FALSE]
TaskMessage ==
    [role |-> "user", content |-> "task", tokens |-> 1,
     source_action |-> "none", compression_dict |-> FALSE]

\* what _agent_step hands to add_message: the model's reply, and tool results
\* (tokens before, ctokens after compress_text): a run_command output that
\* compresses to half, one that stays over the large-message limit even
\* compressed, and a large read_file result
MessageInputs ==
    {[role |-> "assistant", source_action |-> "none", tokens |-> 1, ctokens |-> 1],
     [role |-> "user", source_action |-> "run_command", tokens |-> 6, ctokens |-> 3],
     [role |-> "user", source_action |-> "run_command", tokens |-> 16, ctokens |-> 8],
     [role |-> "user", source_action |-> "read_file", tokens |-> 8, ctokens |-> 8]}

\* sum(estimate_tokens(m["content"]) for m in messages)
RECURSIVE TotalTokens(_)
TotalTokens(msgs) ==
    IF msgs = <<>> THEN 0 ELSE Head(msgs).tokens + TotalTokens(Tail(msgs))

\* the messages of msgs at the indices in S, in order
KeepIndices(msgs, S) ==
    LET F[k \in 0..Len(msgs)] ==
            IF k = 0 THEN <<>>
            ELSE IF k \in S THEN Append(F[k - 1], msgs[k]) ELSE F[k - 1]
    IN  F[Len(msgs)]

\* tool results in the transcript
Results(msgs) == Cardinality({k \in DOMAIN msgs : msgs[k].source_action # "none"})

\* should_compress, with sizes in tokens
ShouldCompress(tokens) == tokens >= CfgCompressionMinTokens

\* int(token_threshold * large_message_ratio)
LargeLimit == (CfgTokenThreshold * CfgLargeRatioPct) \div 100

\* estimate_tokens of what _summarize_text returns for a text of the given
\* size: the provider's summary, or the first 2000 characters when it raises
\* (either is at most one of the model's token units)
SummarizeText(tokens, out) ==
    IF out = "summary" THEN 1 ELSE Min(tokens, 1)

\* add_message: compression of run_command output, large-message pre-check,
\* append
AddMessageResult(msgs, m, out) ==
    LET compressing == /\ m.source_action = "run_command"
                       /\ ShouldCompress(m.tokens)
                       /\ m.ctokens * 100 < 95 * m.tokens
        stored == [role |-> m.role,
                   content |-> IF compressing THEN "compressed" ELSE "text",
                   tokens |-> IF compressing THEN m.ctokens ELSE m.tokens,
                   source_action |-> m.source_action,
                   compression_dict |-> compressing]
        large == stored.tokens > LargeLimit
        final == IF large
                 THEN [stored EXCEPT !.content = "summarized_result",
                                     !.tokens = SummarizeText(stored.tokens, out)]
                 ELSE stored
    IN  [messages |-> Append(msgs, final),
         sent |-> IF large
                  THEN [purpose |-> "large_message", compressed |-> compressing,
                        provenance |-> FALSE]
                  ELSE NoRequest]

\* _pass_dedup_assistant
PassDedupAssistant(msgs) ==
    LET indices == {k \in DOMAIN msgs : msgs[k].role = "assistant"}
        to_remove == {k \in indices :
                        Cardinality({j \in indices : j > k}) >= KeepAssistant}
    IN  IF Cardinality(indices) <= KeepAssistant
        THEN msgs
        ELSE KeepIndices(msgs, DOMAIN msgs \ to_remove)

\* variant: the summarization keeps one message less at the end
PassTokenSummarization_shortTail(msgs, out) ==
    LET keep_head == Min(KeepHead, Len(msgs))
        keep_tail == Min(KeepTail - 1, Len(msgs) - keep_head)
        middle == SubSeq(msgs, keep_head + 1, Len(msgs) - keep_tail)
        summary_msg == [role |-> "user", content |-> "context_summary",
                        tokens |-> SummarizeText(TotalTokens(middle), out),
                        source_action |-> "none", compression_dict |-> FALSE]
    IN  IF TotalTokens(msgs) <= CfgTokenThreshold \/ keep_tail <= 0 \/ middle = <<>>
        THEN [messages |-> msgs, sent |-> NoRequest]
        ELSE [messages |-> SubSeq(msgs, 1, keep_head) \o <<summary_msg>>
                           \o SubSeq(msgs, Len(msgs) - keep_tail + 1, Len(msgs)),
              sent |-> [purpose |-> "middle_section",
                        compressed |-> \E k \in DOMAIN middle :
                                          middle[k].content = "compressed",
                        provenance |-> FALSE]]

\* _pass_token_summarization: the text sent is built from the role and the
\* stored content of each middle message
PassTokenSummarization(msgs, out) ==
    LET keep_head == Min(KeepHead, Len(msgs))
        keep_tail == Min(KeepTail, Len(msgs) - keep_head)
        middle == SubSeq(msgs, keep_head + 1, Len(msgs) - keep_tail)
        summary_msg == [role |-> "user", content |-> "context_summary",
                        tokens |-> SummarizeText(TotalTokens(middle), out),
                        source_action |-> "none", compression_dict |-> FALSE]
    IN  IF TotalTokens(msgs) <= CfgTokenThreshold \/ keep_tail <= 0 \/ middle = <<>>
        THEN [messages |-> msgs, sent |-> NoRequest]
        ELSE [messages |-> SubSeq(msgs, 1, keep_head) \o <<summary_msg>>
                           \o SubSeq(msgs, Len(msgs) - keep_tail + 1, Len(msgs)),
              sent |-> [purpose |-> "middle_section",
                        compressed |-> \E k \in DOMAIN middle :
                                          middle[k].content = "compressed",
                        provenance |-> FALSE]]

\* strip_metadata: compressed messages are decompressed, keys starting with
\* an underscore are dropped
StripMetadata(msgs) ==
    [k \in DOMAIN msgs |->
        IF msgs[k].compression_dict
        THEN [msgs[k] EXCEPT !.content = IF @ = "compressed" THEN "text" ELSE @,
                             !.source_action = "none",
                             !.compression_dict = FALSE]
        ELSE IF msgs[k].source_action # "none"
        THEN [msgs[k] EXCEPT !.source_action = "none"]
        ELSE msgs[k]]

\* run_agent 266-269: the transcript starts as system prompt and task
InitOptimizer ==
    /\ pc = "optimizer_new"
    /\ messages = <<SystemMessage, TaskMessage>>
    /\ sent = NoRequest
    /\ text = <<>>
    /\ compression_result = NoCompression
    /\ decompressed = Absent
    /\ outcome = "running"
    /\ unsafe_mode = FALSE
    /\ session_approved = FALSE
    /\ query_approved = FALSE
    /\ task_queue = [planned |-> FALSE, tasks |-> <<>>]
    /\ i = 0
    /\ pre_completed = [t \in TaskIds |-> Absent]
    /\ resolutions = <<>>
    /\ tasks_status = <<>>
    /\ loop_detector = ConfiguredDetector
    /\ retry_count = 0
    /\ action = NoAction
    /\ result = "none"
    /\ step_msgs = <<>>
    /\ step_reply = "none"
    /\ step_choice = "none"
    /\ step_end = "none"
    /\ last_dispatch = NoDispatch
    /\ tool_raised = FALSE
    /\ cancel_pending = FALSE
    /\ call_after_cancel = FALSE
    /\ abort_pending = FALSE
    /\ start_after_abort = FALSE
    /\ last_marked = [t \in TaskIds |-> Absent]
    /\ registry = <<>>
    /\ llm_calls = <<>>
    /\ workers = <<>>
    /\ returned = NoReturn
    /\ unoptimized = 0

\* what the optimizer never touches
optimizer_frame ==
    <<outcome, config_vars, approval_vars, task_vars, pre_completed, loop_detector,
      retry_count, action, result, step_vars, cancel_pending, call_after_cancel,
      abort_pending, start_after_abort, last_marked, compression_vars,
      library_vars>>

OptimizerPcs == {"optimizer_new", "added", "optimized", "completed"}

\* optimizer.add_message(messages, message, source_action)
AddMessage(m, out) ==
    /\ pc \in OptimizerPcs
    /\ Len(messages) < MaxMessages
    /\ m.source_action # "none" => Results(messages) < MaxResults
    /\ LET r == AddMessageResult(messages, m, out)
       IN  messages' = r.messages /\ sent' = r.sent
    /\ pc' = "added"
    /\ UNCHANGED optimizer_frame

\* optimizer.optimize(messages)
Optimize(out) ==
    /\ pc \in OptimizerPcs
    /\ LET r == PassTokenSummarization(PassDedupAssistant(messages), out)
       IN  messages' = r.messages /\ sent' = r.sent
    /\ pc' = "optimized"
    /\ UNCHANGED optimizer_frame

\* _agent_step 314-326: the completion call on strip_metadata(messages)
Complete ==
    /\ pc \in OptimizerPcs
    /\ LET clean_messages == StripMetadata(messages)
       IN  sent' = [purpose |-> "completion",
                    compressed |-> \E k \in DOMAIN clean_messages :
                                      clean_messages[k].content = "compressed",
                    provenance |-> \E k \in DOMAIN clean_messages :
                                      \/ clean_messages[k].source_action # "none"
                                      \/ clean_messages[k].compression_dict]
    /\ pc' = "completed"
    /\ UNCHANGED messages
    /\ UNCHANGED optimizer_frame

NextOptimizer ==
    \/ \E m \in MessageInputs, out \in {"summary", "error"} : AddMessage(m, out)
    \/ \E out \in {"summary", "error"} : Optimize(out)
    \/ Complete

SpecOptimizer == InitOptimizer /\ [][NextOptimizer]_vars

(* ------------------------------------------------------------------ *)
(* Dictionary compression: compress_text and decompress_text          *)
(* ------------------------------------------------------------------ *)
\* A text is a sequence of characters. The texts explored are made of lower
\* case letters, digits, the token letter and single spaces: they hold
\* none of / . _ : so the path, URL and identifier expressions of
\* _find_frequent_patterns match nothing and only its word windows yield
\* patterns.
Letters == <<"a", "b", "c", "d", "e", "f", "g", "h", "i", "j", "k", "l", "m">>
Digits == <<"0", "1", "2", "3", "4", "5", "6", "7", "8", "9">>

\* f"D{idx}", where "D" stands for the token letter U+0110 (D with stroke)
Token(idx) ==
    IF idx < 10 THEN <<"D", Digits[idx + 1]>>
    ELSE <<"D", Digits[(idx \div 10) + 1], Digits[(idx % 10) + 1]>>

\* old occurs in t at position p
MatchAt(t, old, p) ==
    /\ p + Len(old) - 1 <= Len(t)
    /\ SubSeq(t, p, p + Len(old) - 1) = old

\* the first position from p on at which old occurs in t, 0 when there is none
NextMatch(t, old, p) ==
    LET found == {q \in p..(Len(t) - Len(old) + 1) : MatchAt(t, old, q)}
    IN  IF found = {} THEN 0
        ELSE CHOOSE q \in found : \A r \in found : q <= r

\* str.count: occurrences found left to right, without overlap
RECURSIVE CountFrom(_, _, _)
CountFrom(t, old, p) ==
    LET q == NextMatch(t, old, p)
    IN  IF q = 0 THEN 0 ELSE 1 + CountFrom(t, old, q + Len(old))

\* str.replace: every occurrence found left to right, without overlap
RECURSIVE ReplaceFrom(_, _, _, _)
ReplaceFrom(t, old, new, p) ==
    LET q == NextMatch(t, old, p)
    IN  IF q = 0 THEN SubSeq(t, p, Len(t))
        ELSE SubSeq(t, p, q - 1) \o new \o ReplaceFrom(t, old, new, q + Len(old))

\* a in b, for strings
IsSubstring(a, b) == \E p \in 1..(Len(b) - Len(a) + 1) : MatchAt(b, a, p)

\* text.split(): the maximal runs of characters other than the space
Words(t) ==
    LET starts == {p \in DOMAIN t : t[p] # " " /\ (p = 1 \/ t[p - 1] = " ")}
        EndOf(p) == CHOOSE q \in p..Len(t) :
                        /\ \A r \in p..q : t[r] # " "
                        /\ q = Len(t) \/ t[q + 1] = " "
        StartNo(k) == CHOOSE p \in starts : Cardinality({q \in starts : q < p}) = k - 1
    IN  [k \in 1..Cardinality(starts) |-> SubSeq(t, StartNo(k), EndOf(StartNo(k)))]

\* " ".join(words[p : p + w])
RECURSIVE Join(_, _, _)
Join(words, p, w) ==
    IF w = 1 THEN words[p] ELSE words[p] \o <<" ">> \o Join(words, p + 1, w - 1)

\* the phrases of w words that the Counter counts min_occurrences times and
\* that are min_pattern_length long, in the order of their first occurrence
\* (phrases are equal exactly when their words are, so two phrases of
\* different window sizes are never the same key)
FrequentWindows(words, w) ==
    LET last == IF Len(words) >= w THEN Len(words) - w + 1 ELSE 0
        Window(p) == SubSeq(words, p, p + w - 1)
        frequent == {p \in 1..last :
                       /\ \A q \in 1..(p - 1) : Window(q) # Window(p)
                       /\ Cardinality({q \in p..last : Window(q) = Window(p)})
                              >= min_occurrences
                       /\ Len(Join(words, p, w)) >= min_pattern_length}
        FrequentNo(k) == CHOOSE p \in frequent :
                             Cardinality({q \in frequent : q < p}) = k - 1
    IN  [k \in 1..Cardinality(frequent) |-> Join(words, FrequentNo(k), w)]

\* _find_frequent_patterns: the keys of the Counter, in insertion order
\* (window sizes 10 down to 3), that are frequent
RECURSIVE FrequentFrom(_, _)
FrequentFrom(words, w) ==
    IF w < 3 THEN <<>>
    ELSE FrequentWindows(words, w) \o FrequentFrom(words, w - 1)

FindFrequentPatterns(t) ==
    CHOOSE frequent \in {FrequentFrom(words, 10) : words \in {Words(t)}} : TRUE

\* list.sort(key=..., reverse=True): descending and stable
RECURSIVE SortDescending(_, _)
SortDescending(seq, key) ==
    IF seq = <<>> THEN <<>>
    ELSE LET best == CHOOSE p \in DOMAIN seq :
                        /\ \A q \in DOMAIN seq : key[seq[q]] <= key[seq[p]]
                        /\ \A q \in 1..(p - 1) : key[seq[q]] < key[seq[p]]
         IN  <<seq[best]>> \o SortDescending(KeepIndices(seq, DOMAIN seq \ {best}), key)

\* the selection loop of _select_best_patterns over the patterns from p on
RECURSIVE SelectFrom(_, _, _)
SelectFrom(sorted, p, selected) ==
    IF p > Len(sorted) \/ Len(selected) >= max_dictionary_size THEN selected
    ELSE LET pattern == sorted[p]
             is_overlapping == \E q \in DOMAIN selected :
                                  \/ IsSubstring(pattern, selected[q])
                                  \/ IsSubstring(selected[q], pattern)
         IN  SelectFrom(sorted, p + 1,
                        IF is_overlapping THEN selected ELSE Append(selected, pattern))

\* variant: the patterns are taken in the order of their savings without
\* looking at the ones already selected
SelectBestPatterns_keepsOverlapping(patterns, t) ==
    LET token_length == IF Len(patterns) > 10 THEN 3 ELSE 2
        all == {patterns[p] : p \in DOMAIN patterns}
        savings == [ph \in all |-> (Len(ph) - token_length) * CountFrom(t, ph, 1)]
        length == [ph \in all |-> Len(ph)]
        pattern_savings == SelectSeq(patterns, LAMBDA ph : savings[ph] > 0)
        sorted == SortDescending(pattern_savings, savings)
    IN  SortDescending(SubSeq(sorted, 1, Min(Len(sorted), max_dictionary_size)),
                       length)

\* _select_best_patterns
SelectBestPatterns(patterns, t) ==
    LET token_length == IF Len(patterns) > 10 THEN 3 ELSE 2
        all == {patterns[p] : p \in DOMAIN patterns}
        savings == [ph \in all |-> (Len(ph) - token_length) * CountFrom(t, ph, 1)]
        length == [ph \in all |-> Len(ph)]
        pattern_savings == SelectSeq(patterns, LAMBDA ph : savings[ph] > 0)
    IN  SortDescending(SelectFrom(SortDescending(pattern_savings, savings), 1, <<>>),
                       length)

\* the replacement loop of compress_text from dictionary entry idx on
RECURSIVE CompressFrom(_, _, _)
CompressFrom(t, selected, idx) ==
    IF idx >= Len(selected) THEN t
    ELSE CompressFrom(ReplaceFrom(t, selected[idx + 1], Token(idx), 1), selected, idx + 1)

\* compress_text; dictionary[idx + 1] is the pattern of the token Token(idx)
CompressText(t) ==
    IF t = <<>> \/ Len(t) < min_pattern_length * min_occurrences
    THEN [compressed_text |-> t, dictionary |-> <<>>]
    ELSE LET selected == SelectBestPatterns(FindFrequentPatterns(t), t)
         IN  IF selected = <<>>
             THEN [compressed_text |-> t, dictionary |-> <<>>]
             ELSE [compressed_text |-> CompressFrom(t, selected, 0),
                   dictionary |-> selected]

\* the replacement loop of decompress_text: tokens in descending numeric order
RECURSIVE DecompressFrom(_, _, _)
DecompressFrom(t, dictionary, idx) ==
    IF idx < 0 THEN t
    ELSE DecompressFrom(ReplaceFrom(t, Token(idx), dictionary[idx + 1], 1),
                        dictionary, idx - 1)

\* decompress_text
DecompressText(t, dictionary) ==
    IF dictionary = <<>> THEN t
    ELSE DecompressFrom(t, dictionary, Len(dictionary) - 1)

\* the character c, n times
RECURSIVE Repeat(_, _)
Repeat(c, n) == IF n = 0 THEN <<>> ELSE <<c>> \o Repeat(c, n - 1)

\* the k-th phrase: three words of one letter, min_pattern_length characters
Phrase(k) ==
    Repeat(Letters[k], 4) \o <<" ">> \o Repeat(Letters[k], 2) \o <<" ">>
        \o Repeat(Letters[k], 2)

\* a text in which each of the first n phrases occurs min_occurrences times
RECURSIVE Body(_)
Body(n) ==
    IF n = 0 THEN <<>>
    ELSE Body(n - 1) \o Phrase(n) \o <<" ">> \o Phrase(n) \o <<" ">>
             \o Phrase(n) \o <<" ">>

\* what a text goes on with: one more occurrence of the first phrase, the
\* second phrase immediately followed by a digit, a word that reads like a
\* token, a plain word
Extras ==
    {Phrase(1) \o <<" ">>, Phrase(2) \o <<"0", " ">>, <<"D", "0", " ">>,
     <<"m", "9", " ">>}

\* numbers of distinct repeated phrases explored
PatternCounts == {0, 1, 2, MaxPatterns - 1, MaxPatterns}

\* the texts handed to compress_text
CompressionInputs ==
    {Body(n) \o e1 \o e2 : n \in PatternCounts,
                           e1 \in Extras \cup {<<>>}, e2 \in Extras \cup {<<>>}}

InitCompression ==
    /\ pc = "text"
    /\ text \in CompressionInputs
    /\ compression_result = NoCompression
    /\ decompressed = Absent
    /\ messages = <<>>
    /\ sent = NoRequest
    /\ outcome = "running"
    /\ unsafe_mode = FALSE
    /\ session_approved = FALSE
    /\ query_approved = FALSE
    /\ task_queue = [planned |-> FALSE, tasks |-> <<>>]
    /\ i = 0
    /\ pre_completed = [t \in TaskIds |-> Absent]
    /\ resolutions = <<>>
    /\ tasks_status = <<>>
    /\ loop_detector = ConfiguredDetector
    /\ retry_count = 0
    /\ action = NoAction
    /\ result = "none"
    /\ step_msgs = <<>>
    /\ step_reply = "none"
    /\ step_choice = "none"
    /\ step_end = "none"
    /\ last_dispatch = NoDispatch
    /\ tool_raised = FALSE
    /\ cancel_pending = FALSE
    /\ call_after_cancel = FALSE
    /\ abort_pending = FALSE
    /\ start_after_abort = FALSE
    /\ last_marked = [t \in TaskIds |-> Absent]
    /\ registry = <<>>
    /\ llm_calls = <<>>
    /\ workers = <<>>
    /\ returned = NoReturn
    /\ unoptimized = 0

\* what compression never touches
compression_frame ==
    <<outcome, config_vars, approval_vars, task_vars, pre_completed, loop_detector,
      retry_count, action, result, step_vars, cancel_pending, call_after_cancel,
      abort_pending, start_after_abort, last_marked, optimizer_vars,
      library_vars>>

\* compression_result = compress_text(text)
Compress ==
    /\ pc = "text"
    /\ compression_result' = CompressText(text)
    /\ pc' = "compressed"
    /\ UNCHANGED <<text, decompressed>>
    /\ UNCHANGED compression_frame

\* decompress_text(compression_result.compressed_text,
\*                 compression_result.dictionary)
Decompress ==
    /\ pc = "compressed"
    /\ decompressed' = DecompressText(compression_result.compressed_text,
                                      compression_result.dictionary)
    /\ pc' = "decompressed"
    /\ UNCHANGED <<text, compression_result>>
    /\ UNCHANGED compression_frame

NextCompression ==
    \/ Compress
    \/ Decompress

SpecCompression == InitCompression /\ [][NextCompression]_vars

(* ------------------------------------------------------------------ *)
(* The TaskList of a TaskExecutor, driven through its own two methods *)
(* ------------------------------------------------------------------ *)
\* ids record_task_resolution is called with: the ids of the list's tasks and
\* ids no task of the list has (0 and MaxTasks + 1)
ResolutionIds == 0..(MaxTasks + 1)

\* a TaskExecutor after construction: current_task_list is None
InitTaskList ==
    /\ pc = "no_task_list"
    /\ outcome = "running"
    /\ unsafe_mode = FALSE
    /\ session_approved = FALSE
    /\ query_approved = FALSE
    /\ task_queue = [planned |-> FALSE, tasks |-> <<>>]
    /\ i = 0
    /\ pre_completed = [t \in TaskIds |-> Absent]
    /\ resolutions = <<>>
    /\ tasks_status = <<>>
    /\ loop_detector = ConfiguredDetector
    /\ retry_count = 0
    /\ action = NoAction
    /\ result = "none"
    /\ step_msgs = <<>>
    /\ step_reply = "none"
    /\ step_choice = "none"
    /\ step_end = "none"
    /\ last_dispatch = NoDispatch
    /\ tool_raised = FALSE
    /\ cancel_pending = FALSE
    /\ call_after_cancel = FALSE
    /\ abort_pending = FALSE
    /\ start_after_abort = FALSE
    /\ last_marked = [t \in TaskIds |-> Absent]
    /\ messages = <<>>
    /\ sent = NoRequest
    /\ text = <<>>
    /\ compression_result = NoCompression
    /\ decompressed = Absent
    /\ registry = <<>>
    /\ llm_calls = <<>>
    /\ workers = <<>>
    /\ returned = NoReturn
    /\ unoptimized = 0

\* what the TaskList methods never touch
tasklist_frame ==
    <<outcome, unsafe_mode, approval_vars, i, pre_completed, loop_detector,
      retry_count, action, result, step_vars, cancel_pending, call_after_cancel,
      abort_pending, start_after_abort, last_marked, optimizer_vars,
      compression_vars, registry, llm_calls, workers, unoptimized>>

\* f"task_{k}": the text of a task id
TaskIdText(t) == "task_" \o ToString(t)

\* the text get_previous_resolutions_context builds from the resolutions, as
\* the sequence of its pieces: per resolution the block "**<id>: <description>**",
\* "Result: <resolution>" and, when notes is not empty, "Context: <notes>",
\* its lines joined by "\n" and the blocks by "\n\n"
RECURSIVE Render(_)
Render(res) ==
    IF res = <<>> THEN <<>>
    ELSE LET r == res[1]
             block == <<"**", TaskIdText(r.task_id), ": ", r.task_description, "**",
                        "\n", "Result: ", r.resolution>>
                      \o (IF r.notes # "" THEN <<"\n", "Context: ", r.notes>>
                          ELSE <<>>)
         IN  IF Len(res) = 1 THEN block
             ELSE block \o <<"\n\n">> \o Render(Tail(res))

\* TaskExecutor.initialize_from_task_queue: a fresh TaskList with one pending
\* task task_<k> per entry of the queue (any earlier list is replaced)
InitializeFromTaskQueue(n) ==
    /\ pc \in {"no_task_list", "task_list"}
    /\ pc' = "task_list"
    /\ task_queue' = [planned |-> TRUE, tasks |-> [k \in 1..n |-> k]]
    /\ tasks_status' = [k \in 1..n |-> "pending"]
    /\ resolutions' = <<>>
    /\ returned' = [call |-> "initialize_from_task_queue", value |-> "task_list"]
    /\ UNCHANGED tasklist_frame

\* TaskExecutor.record_task_resolution: nothing without a task list, else
\* TaskList.add_resolution
RecordTaskResolution(task_id, task_description, resolution, notes) ==
    /\ pc \in {"no_task_list", "task_list"}
    /\ Len(resolutions) < MaxResolutions
    /\ IF pc = "task_list"
       THEN LET r == AddResolution(resolutions, tasks_status, task_id, task_description,
                                 resolution, notes)
            IN  resolutions' = r.resolutions /\ tasks_status' = r.tasks_status
       ELSE UNCHANGED <<resolutions, tasks_status>>
    /\ returned' = [call |-> "record_task_resolution", value |-> "None"]
    /\ UNCHANGED <<pc, task_queue>>
    /\ UNCHANGED tasklist_frame

\* variant: the newest resolution is rendered first
GetPreviousResolutionsContext_newestFirst ==
    /\ pc \in {"no_task_list", "task_list"}
    /\ returned' =
          [call |-> "get_previous_resolutions_context",
           value |-> IF pc = "no_task_list" \/ resolutions = <<>>
                     THEN <<"No previous task resolutions yet.">>
                     ELSE LET n == Len(resolutions)
                          IN  Render([k \in 1..n |-> resolutions[n + 1 - k]])]
    /\ UNCHANGED <<pc, task_queue, resolutions, tasks_status>>
    /\ UNCHANGED tasklist_frame

\* TaskExecutor.get_previous_resolutions_context
GetPreviousResolutionsContext ==
    /\ pc \in {"no_task_list", "task_list"}
    /\ returned' =
          [call |-> "get_previous_resolutions_context",
           value |-> IF pc = "no_task_list" \/ resolutions = <<>>
                     THEN <<"No previous task resolutions yet.">>
                     ELSE Render(resolutions)]
    /\ UNCHANGED <<pc, task_queue, resolutions, tasks_status>>
    /\ UNCHANGED tasklist_frame

NextTaskList ==
    \/ \E n \in 0..MaxTasks : InitializeFromTaskQueue(n)
    \/ \E t \in ResolutionIds, d \in {"write tests", "fix the parser"},
          notes \in {"", "discoveries"} :
          RecordTaskResolution(t, d, "s1", notes)
    \/ GetPreviousResolutionsContext

SpecTaskList == InitTaskList /\ [][NextTaskList]_vars


(* ------------------------------------------------------------------ *)
(* A LoopDetector driven directly                                     *)
(* ------------------------------------------------------------------ *)
\* the variables of run_agent other than pc and loop_detector
orchestrator_vars ==
    <<outcome, config_vars, approval_vars, task_vars, pre_completed, retry_count,
      action, result, step_vars, cancel_pending, call_after_cancel,
      abort_pending, start_after_abort, last_marked>>

\* no run_agent call is in progress
OrchestratorIdle ==
    /\ outcome = "running"
    /\ unsafe_mode = FALSE
    /\ session_approved = FALSE
    /\ query_approved = FALSE
    /\ task_queue = [planned |-> FALSE, tasks |-> <<>>]
    /\ i = 0
    /\ pre_completed = [t \in TaskIds |-> Absent]
    /\ resolutions = <<>>
    /\ tasks_status = <<>>
    /\ retry_count = 0
    /\ action = NoAction
    /\ result = "none"
    /\ step_msgs = <<>>
    /\ step_reply = "none"
    /\ step_choice = "none"
    /\ step_end = "none"
    /\ last_dispatch = NoDispatch
    /\ tool_raised = FALSE
    /\ cancel_pending = FALSE
    /\ call_after_cancel = FALSE
    /\ abort_pending = FALSE
    /\ start_after_abort = FALSE
    /\ last_marked = [t \in TaskIds |-> Absent]

\* LoopDetector(max_iterations, action_window_size, repetition_threshold,
\* error_threshold, pattern_length) in the configurations explored
InitLoopDetector ==
    /\ pc = "loop_detector"
    /\ loop_detector \in
          {NewLoopDetector(c[1], c[2], c[3], c[4], c[5]) :
              c \in {<<4, 3, 3, 3, 1>>, <<3, 3, 3, 3, 1>>, <<4, 2, 3, 4, 1>>,
                     <<4, 3, 2, 2, 1>>, <<8, 6, 2, 8, 2>>, <<6, 4, 4, 6, 1>>}}
    /\ OrchestratorIdle
    /\ messages = <<>>
    /\ sent = NoRequest
    /\ text = <<>>
    /\ compression_result = NoCompression
    /\ decompressed = Absent
    /\ registry = <<>>
    /\ llm_calls = <<>>
    /\ workers = <<>>
    /\ returned = NoReturn
    /\ unoptimized = 0

\* loop_detector.record_action(name, params, result, was_error)
RecordActionCall(name, params, was_error) ==
    /\ pc = "loop_detector"
    /\ loop_detector.iteration_count < MaxRecords
    /\ loop_detector' = RecordAction(loop_detector, name, params, was_error)
    /\ returned' = [call |-> "record_action", value |-> "None"]
    /\ UNCHANGED <<pc, orchestrator_vars, optimizer_vars, compression_vars,
                   registry, llm_calls, workers, unoptimized>>

\* loop_detector.check_for_loops()
CheckForLoopsCall ==
    /\ pc = "loop_detector"
    /\ returned' = [call |-> "check_for_loops", value |-> CheckForLoops(loop_detector)]
    /\ UNCHANGED <<pc, loop_detector, orchestrator_vars, optimizer_vars,
                   compression_vars, registry, llm_calls, workers, unoptimized>>

\* loop_detector.mark_intervention()
MarkInterventionCall ==
    /\ pc = "loop_detector"
    /\ loop_detector' = MarkIntervention(loop_detector)
    /\ returned' = [call |-> "mark_intervention", value |-> "None"]
    /\ UNCHANGED <<pc, orchestrator_vars, optimizer_vars, compression_vars,
                   registry, llm_calls, workers, unoptimized>>

\* the actions recorded: two tools, two parameter dicts that are not similar
NextLoopDetector ==
    \/ \E name \in {"read_file", "search_code"},
          params \in {{<<"path", "a">>}, {<<"path", "b">>}}, was_error \in BOOLEAN :
          RecordActionCall(name, params, was_error)
    \/ CheckForLoopsCall
    \/ MarkInterventionCall

SpecLoopDetector == InitLoopDetector /\ [][NextLoopDetector]_vars


(* ------------------------------------------------------------------ *)
(* An agent that cycles through ten actions, default configuration    *)
(* ------------------------------------------------------------------ *)
\* run_agent 97-103 with the defaults of AgentConfig, in the inner loop
InitDefaultCycle ==
    /\ pc = "cycling"
    /\ loop_detector =
          NewLoopDetector(AgentConfig_max_iterations,
                          AgentConfig_loop_action_window_size,
                          AgentConfig_loop_repetition_threshold,
                          AgentConfig_loop_error_threshold,
                          AgentConfig_loop_pattern_length)
    /\ OrchestratorIdle
    /\ messages = <<>>
    /\ sent = NoRequest
    /\ text = <<>>
    /\ compression_result = NoCompression
    /\ decompressed = Absent
    /\ registry = <<>>
    /\ llm_calls = <<>>
    /\ workers = <<>>
    /\ returned = NoReturn
    /\ unoptimized = 0

\* _agent_step 483-496 for the next action of the cycle: the action succeeded
\* and is recorded, check_for_loops is called, and the intervention prompt
\* comes up when a loop is flagged and should_ask_for_intervention() holds
CycleStep ==
    /\ pc = "cycling"
    /\ LET cycle == <<"read_file", "search_code", "run_command", "write_file",
                      "edit_file", "delete_file", "search_documentation",
                      "search_tickets", "notebook_search", "notebook_add">>
           name == cycle[(loop_detector.iteration_count % Len(cycle)) + 1]
           ld == RecordAction(loop_detector, name, {<<"path", name>>}, FALSE)
       IN  /\ loop_detector' = ld
           /\ returned' = [call |-> "check_for_loops", value |-> CheckForLoops(ld)]
           /\ pc' = IF CheckForLoops(ld).is_loop_detected
                       /\ ShouldAskForIntervention(ld)
                    THEN "intervention" ELSE "cycling"
    /\ UNCHANGED <<orchestrator_vars, optimizer_vars, compression_vars,
                   registry, llm_calls, workers, unoptimized>>

\* the agent takes its next step as long as it is not stopped at the prompt
SpecDefaultCycle == InitDefaultCycle /\ [][CycleStep]_vars /\ WF_vars(CycleStep)


(* ------------------------------------------------------------------ *)
(* The model request of a step and its background thread              *)
(* ------------------------------------------------------------------ *)
\* the single-task inner loop is about to make the request of its first step
InitRequest ==
    /\ pc = "request"
    /\ loop_detector = ConfiguredDetector
    /\ OrchestratorIdle
    /\ messages = <<>>
    /\ sent = NoRequest
    /\ text = <<>>
    /\ compression_result = NoCompression
    /\ decompressed = Absent
    /\ registry = <<>>
    /\ llm_calls = <<>>
    /\ workers = <<>>
    /\ returned = NoReturn
    /\ unoptimized = 0

\* what the request of a step never touches
request_frame ==
    <<config_vars, approval_vars, i, resolutions, tasks_status, pre_completed,
      loop_detector, action, result, step_vars, cancel_pending, call_after_cancel,
      abort_pending, start_after_abort, last_marked, sent, compression_vars,
      registry, llm_calls, unoptimized>>

\* retry_llm_request calls request_fn(): run_llm_with_cancel creates the
\* Future and starts the daemon thread that runs llm_fn
StartWorker ==
    /\ pc = "request"
    /\ Len(workers) < MaxWorkers
    /\ workers' = Append(workers, [state |-> "running", abandoned |-> FALSE])
    /\ pc' = "waiting"
    /\ UNCHANGED <<outcome, retry_count, messages, returned>>
    /\ UNCHANGED request_frame

\* _target of thread k: llm_fn() returns or raises and the thread ends,
\* whether or not anyone still waits for its Future
WorkerFinishes(k, state) ==
    /\ k \in DOMAIN workers
    /\ workers[k].state = "running"
    /\ workers' = [workers EXCEPT ![k].state = state]
    /\ UNCHANGED <<pc, outcome, retry_count, messages, returned>>
    /\ UNCHANGED request_frame

\* future.result() returns the reply of the thread started last:
\* retry_llm_request returns it, _agent_step appends it to the transcript and
\* goes on to the end of the step, and the loop calls _agent_step again
FutureResult ==
    /\ pc = "waiting"
    /\ workers[Len(workers)].state = "replied"
    /\ returned' = [call |-> "retry_llm_request", value |-> Len(workers)]
    /\ messages' = Append(messages, [role |-> "assistant", worker |-> Len(workers)])
    /\ retry_count' = 0
    /\ pc' = "request"
    /\ UNCHANGED <<outcome, workers>>
    /\ UNCHANGED request_frame

\* run_llm_with_cancel raises: the exception of llm_fn comes out of
\* future.result(), or Ctrl+C interrupts the polling and AgentCancelled is
\* raised while the thread is left to itself. retry_llm_request catches both
\* with "except Exception": LLMRequestError after the last attempt, the
\* retry-or-abort prompt before
RequestRaises(kind) ==
    /\ pc = "waiting"
    /\ kind = "error" => workers[Len(workers)].state = "raised"
    /\ workers' = IF kind = "interrupt"
                  THEN [workers EXCEPT ![Len(workers)].abandoned = TRUE]
                  ELSE workers
    /\ IF RetriesExhausted
       THEN pc' = "ended" /\ outcome' = "escaped"
       ELSE pc' = "retry_prompt" /\ outcome' = outcome
    /\ UNCHANGED <<retry_count, messages, returned>>
    /\ UNCHANGED request_frame

\* handle_llm_request_error 117-132: retry makes retry_llm_request call
\* request_fn() again, abort (or a cancelled prompt) raises AgentCancelled
RetryPrompt(choice) ==
    /\ pc = "retry_prompt"
    /\ IF choice = "retry"
       THEN pc' = "request" /\ retry_count' = retry_count + 1 /\ outcome' = outcome
       ELSE pc' = "ended" /\ outcome' = "cancelled" /\ retry_count' = retry_count
    /\ UNCHANGED <<workers, messages, returned>>
    /\ UNCHANGED request_frame

NextRequest ==
    \/ StartWorker
    \/ \E k \in 1..MaxWorkers, state \in {"replied", "raised"} : WorkerFinishes(k, state)
    \/ FutureResult
    \/ \E kind \in {"error", "interrupt"} : RequestRaises(kind)
    \/ \E choice \in {"retry", "abort"} : RetryPrompt(choice)

SpecRequest == InitRequest /\ [][NextRequest]_vars


(* ------------------------------------------------------------------ *)
(* Planner                                                            *)
(* ------------------------------------------------------------------ *)
\* bool(v) of a JSON value, written as its JSON text
Truthy(v) == v \notin {"false", "null", "0", "\"\"", "[]", "{}"}

\* dict.get(key, default) on a parsed JSON object, a function from its keys
Get(obj, key, default) == IF key \in DOMAIN obj THEN obj[key] ELSE default

\* a markdown text is its sequence of lines, [bullet, desc]: bullet says the
\* line starts with "-", "*" or "<n>.", desc is what follows the marker (the
\* stripped line when there is none); str.strip() drops the blank lines and
\* the spaces at both ends
RECURSIVE Strip(_)
Strip(lines) ==
    IF lines = <<>> THEN <<>>
    ELSE IF ~lines[1].bullet /\ lines[1].desc = "" THEN Strip(Tail(lines))
    ELSE IF ~lines[Len(lines)].bullet /\ lines[Len(lines)].desc = ""
         THEN Strip(SubSeq(lines, 1, Len(lines) - 1))
    ELSE lines

\* Planner._parse_task_list: the non-empty descriptions of the bullet lines
RECURSIVE ParseTaskList(_)
ParseTaskList(lines) ==
    IF lines = <<>> THEN <<>>
    ELSE IF lines[1].bullet /\ lines[1].desc # ""
         THEN <<lines[1].desc>> \o ParseTaskList(Tail(lines))
         ELSE ParseTaskList(Tail(lines))

\* variant: the file context and the plan are asked for before the analysis
\* is looked at
MaybePlan_asksFirst(enabled, task, system_prompt, analysis, context, generation) ==
    /\ pc = "planner"
    /\ llm_calls' = <<[prompt |-> "analysis", reply |-> analysis],
                      [prompt |-> "context", reply |-> context],
                      [prompt |-> "generation", reply |-> generation]>>
    /\ returned' = [call |-> "maybe_plan", task |-> task,
                    system_prompt |-> system_prompt,
                    value |-> [kind |-> "None", plan |-> "", tasks |-> <<>>,
                               system_prompt |-> ""]]
    /\ UNCHANGED <<pc, loop_detector, orchestrator_vars, optimizer_vars,
                   compression_vars, registry, workers, unoptimized>>

\* variant: the parsed tasks are used as they are, also when there are none
MaybePlan_noFallback(enabled, task, system_prompt, analysis, context, generation) ==
    /\ pc = "planner"
    /\ LET none == [kind |-> "None", plan |-> "", tasks |-> <<>>, system_prompt |-> ""]
           raised == [kind |-> "raised", plan |-> "", tasks |-> <<>>,
                      system_prompt |-> ""]
           call1 == <<[prompt |-> "analysis", reply |-> analysis]>>
           call2 == Append(call1, [prompt |-> "context", reply |-> context])
           call3 == Append(call2, [prompt |-> "generation", reply |-> generation])
           plan == Get(generation.object, "plan", "")
           tasks_raw == Get(generation.object, "tasks", <<>>)
           parsed_tasks == ParseTaskList(Strip(tasks_raw))
           task_list == parsed_tasks
           r == IF ~enabled THEN [llm_calls |-> <<>>, value |-> none]
                ELSE IF analysis.raised THEN [llm_calls |-> call1, value |-> raised]
                ELSE IF ~analysis.json
                        \/ ~Truthy(Get(analysis.object, "needs_planning", "false"))
                THEN [llm_calls |-> call1, value |-> none]
                ELSE IF context.raised THEN [llm_calls |-> call2, value |-> raised]
                ELSE IF generation.raised THEN [llm_calls |-> call3, value |-> raised]
                ELSE IF ~generation.json THEN [llm_calls |-> call3, value |-> none]
                ELSE IF plan = "" /\ tasks_raw = <<>>
                THEN [llm_calls |-> call3, value |-> none]
                ELSE [llm_calls |-> call3,
                      value |-> [kind |-> "TaskQueue", plan |-> plan,
                                 tasks |-> task_list,
                                 system_prompt |-> system_prompt]]
       IN  /\ llm_calls' = r.llm_calls
           /\ returned' = [call |-> "maybe_plan", task |-> task,
                           system_prompt |-> system_prompt, value |-> r.value]
    /\ UNCHANGED <<pc, loop_detector, orchestrator_vars, optimizer_vars,
                   compression_vars, registry, workers, unoptimized>>

\* planner.maybe_plan(task, system_prompt) with planning_enabled = enabled and
\* the replies the three _call_llm calls get if they are made. A reply is
\* [raised, json, object]: the call raised, or _parse_json found no JSON
\* object in the text, or it found the object given
MaybePlan(enabled, task, system_prompt, analysis, context, generation) ==
    /\ pc = "planner"
    /\ LET none == [kind |-> "None", plan |-> "", tasks |-> <<>>, system_prompt |-> ""]
           raised == [kind |-> "raised", plan |-> "", tasks |-> <<>>,
                      system_prompt |-> ""]
           call1 == <<[prompt |-> "analysis", reply |-> analysis]>>
           call2 == Append(call1, [prompt |-> "context", reply |-> context])
           call3 == Append(call2, [prompt |-> "generation", reply |-> generation])
           plan == Get(generation.object, "plan", "")
           tasks_raw == Get(generation.object, "tasks", <<>>)
           parsed_tasks == ParseTaskList(Strip(tasks_raw))
           task_list == IF parsed_tasks # <<>> THEN parsed_tasks
                        ELSE IF tasks_raw # <<>> THEN <<Strip(tasks_raw)>>
                        ELSE <<task>>
           r == IF ~enabled THEN [llm_calls |-> <<>>, value |-> none]
                ELSE IF analysis.raised THEN [llm_calls |-> call1, value |-> raised]
                ELSE IF ~analysis.json
                        \/ ~Truthy(Get(analysis.object, "needs_planning", "false"))
                THEN [llm_calls |-> call1, value |-> none]
                ELSE IF context.raised THEN [llm_calls |-> call2, value |-> raised]
                ELSE IF generation.raised THEN [llm_calls |-> call3, value |-> raised]
                ELSE IF ~generation.json THEN [llm_calls |-> call3, value |-> none]
                ELSE IF plan = "" /\ tasks_raw = <<>>
                THEN [llm_calls |-> call3, value |-> none]
                ELSE [llm_calls |-> call3,
                      value |-> [kind |-> "TaskQueue", plan |-> plan,
                                 tasks |-> task_list,
                                 system_prompt |-> system_prompt]]
       IN  /\ llm_calls' = r.llm_calls
           /\ returned' = [call |-> "maybe_plan", task |-> task,
                           system_prompt |-> system_prompt, value |-> r.value]
    /\ UNCHANGED <<pc, loop_detector, orchestrator_vars, optimizer_vars,
                   compression_vars, registry, workers, unoptimized>>

InitPlanner ==
    /\ pc = "planner"
    /\ loop_detector = ConfiguredDetector
    /\ OrchestratorIdle
    /\ messages = <<>>
    /\ sent = NoRequest
    /\ text = <<>>
    /\ compression_result = NoCompression
    /\ decompressed = Absent
    /\ registry = <<>>
    /\ llm_calls = <<>>
    /\ workers = <<>>
    /\ returned = NoReturn
    /\ unoptimized = 0

\* the replies to the analysis, the file-context and the generation prompt
NextPlanner ==
    LET Reply(obj) == [raised |-> FALSE, json |-> TRUE, object |-> obj]
        Prose == [raised |-> FALSE, json |-> FALSE, object |-> <<>>]
        Raised == [raised |-> TRUE, json |-> FALSE, object |-> <<>>]
        AnalysisReplies ==
            {Raised, Prose, Reply(<<>>)}
            \cup {Reply([needs_planning |-> v]) :
                    v \in {"true", "false", "null", "1", "\"no\""}}
        ContextReplies ==
            {Raised, Prose, Reply(<<>>), Reply([needs_file_context |-> "false"]),
             Reply([needs_file_context |-> "true"])}
        GenerationReplies ==
            {Raised, Prose, Reply(<<>>), Reply([plan |-> "steps"]),
             Reply([plan |-> "", tasks |-> <<>>]),
             Reply([plan |-> "steps", tasks |-> <<[bullet |-> FALSE, desc |-> ""]>>]),
             Reply([tasks |-> <<[bullet |-> FALSE, desc |-> "do it all"]>>]),
             Reply([plan |-> "steps",
                    tasks |-> <<[bullet |-> TRUE, desc |-> "first"],
                                [bullet |-> TRUE, desc |-> ""],
                                [bullet |-> TRUE, desc |-> "second"]>>])}
    IN  \E enabled \in BOOLEAN, system_prompt \in {"prompt_a", "prompt_b"},
           analysis \in AnalysisReplies, context \in ContextReplies,
           generation \in GenerationReplies :
            MaybePlan(enabled, "request", system_prompt, analysis, context, generation)

SpecPlanner == InitPlanner /\ [][NextPlanner]_vars

(* ------------------------------------------------------------------ *)
(* ToolRegistry                                                       *)
(* ------------------------------------------------------------------ *)
\* RESERVED_TOOL_NAMES
RESERVED_TOOL_NAMES ==
    {"run_command", "write_file", "read_file", "edit_file", "delete_file",
     "search_code", "search_documentation", "search_tickets", "ask_chat",
     "ask_user", "notebook_search", "notebook_add", "notebook_remove",
     "mark_task_done", "done"}

\* ToolRegistry.__init__: the instances of _BUILTIN_TOOLS under their names
\* (there is no built-in tool named done)
BuiltinRegistry ==
    [n \in RESERVED_TOOL_NAMES \ {"done"} |->
        [name |-> n, security_level |-> SecurityLevel(n), origin |-> "builtin"]]

\* the characters of a tool name
Chars(name) ==
    CASE name = "grep_logs" -> <<"g", "r", "e", "p", "_", "l", "o", "g", "s">>
      [] name = "deploy" -> <<"d", "e", "p", "l", "o", "y">>
      [] name = "deploy\n" -> <<"d", "e", "p", "l", "o", "y", "\n">>
      [] name = "Deploy" -> <<"D", "e", "p", "l", "o", "y">>
      [] name = "run_command" ->
           <<"r", "u", "n", "_", "c", "o", "m", "m", "a", "n", "d">>
      [] name = "done" -> <<"d", "o", "n", "e">>

\* _TOOL_NAME_PATTERN.match(name) for ^[a-z][a-z0-9_]*$: re.match anchors at
\* the start, and $ also matches just before a line feed that ends the string
MatchesToolNamePattern(chars) ==
    LET lower == {"a", "b", "c", "d", "e", "f", "g", "h", "i", "j", "k", "l", "m",
                  "n", "o", "p", "q", "r", "s", "t", "u", "v", "w", "x", "y", "z"}
        word == lower \cup {"0", "1", "2", "3", "4", "5", "6", "7", "8", "9", "_"}
        body == IF Len(chars) >= 1 /\ chars[Len(chars)] = "\n"
                THEN SubSeq(chars, 1, Len(chars) - 1) ELSE chars
    IN  /\ Len(body) >= 1
        /\ body[1] \in lower
        /\ \A k \in 2..Len(body) : body[k] \in word

\* variant: register only rejects names that break the pattern
RegisterResult_overridesReserved(reg, tool) ==
    IF ~MatchesToolNamePattern(Chars(tool.name))
    THEN [registry |-> reg, raised |-> TRUE]
    ELSE [registry |-> [n \in DOMAIN reg \cup {tool.name} |->
                           IF n = tool.name THEN tool ELSE reg[n]],
          raised |-> FALSE]

\* ToolRegistry.register: ValueError for a name that breaks the pattern or is
\* reserved, else self._tools[tool.name] = tool
RegisterResult(reg, tool) ==
    IF ~MatchesToolNamePattern(Chars(tool.name))
    THEN [registry |-> reg, raised |-> TRUE]
    ELSE IF tool.name \in RESERVED_TOOL_NAMES
    THEN [registry |-> reg, raised |-> TRUE]
    ELSE [registry |-> [n \in DOMAIN reg \cup {tool.name} |->
                           IF n = tool.name THEN tool ELSE reg[n]],
          raised |-> FALSE]

\* variant: an unsafe tool is registered whatever the mode
LoadTools_keepsUnsafe(reg, tools, unsafe, loaded_names) ==
    LET after[k \in 0..Len(tools)] ==
            IF k = 0 THEN [registry |-> reg, loaded_names |-> loaded_names]
            ELSE LET r == RegisterResult(after[k - 1].registry, tools[k])
                 IN  IF r.raised THEN after[k - 1]
                     ELSE [registry |-> r.registry,
                           loaded_names |-> Append(after[k - 1].loaded_names,
                                                   tools[k].name)]
    IN  after[Len(tools)]

\* the for-loop of load_tool_pack over the tools register_tools() returned:
\* an unsafe tool is skipped without unsafe_mode, a ValueError of register is
\* logged, a registered tool's name is appended to loaded_names
LoadTools(reg, tools, unsafe, loaded_names) ==
    LET after[k \in 0..Len(tools)] ==
            IF k = 0 THEN [registry |-> reg, loaded_names |-> loaded_names]
            ELSE IF tools[k].security_level = "unsafe" /\ ~unsafe THEN after[k - 1]
            ELSE LET r == RegisterResult(after[k - 1].registry, tools[k])
                 IN  IF r.raised THEN after[k - 1]
                     ELSE [registry |-> r.registry,
                           loaded_names |-> Append(after[k - 1].loaded_names,
                                                   tools[k].name)]
    IN  after[Len(tools)]

InitRegistry ==
    /\ pc = "registry"
    /\ registry = BuiltinRegistry
    /\ loop_detector = ConfiguredDetector
    /\ OrchestratorIdle
    /\ messages = <<>>
    /\ sent = NoRequest
    /\ text = <<>>
    /\ compression_result = NoCompression
    /\ decompressed = Absent
    /\ llm_calls = <<>>
    /\ workers = <<>>
    /\ returned = NoReturn
    /\ unoptimized = 0

\* registry.register(tool)
Register(tool) ==
    /\ pc = "registry"
    /\ LET r == RegisterResult(registry, tool)
       IN  /\ registry' = r.registry
           /\ returned' = [call |-> "register",
                           value |-> IF r.raised THEN "ValueError" ELSE "None",
                           tools |-> <<tool>>, unsafe_mode |-> FALSE]
    /\ UNCHANGED <<pc, loop_detector, orchestrator_vars, optimizer_vars,
                   compression_vars, llm_calls, workers, unoptimized>>

\* registry.load_tool_pack(pack_dir, unsafe_mode) for a pack whose tool files
\* export the tools given
LoadToolPack(tools, unsafe) ==
    /\ pc = "registry"
    /\ LET r == LoadTools(registry, tools, unsafe, <<>>)
       IN  /\ registry' = r.registry
           /\ returned' = [call |-> "load_tool_pack", value |-> r.loaded_names,
                           tools |-> tools, unsafe_mode |-> unsafe]
    /\ UNCHANGED <<pc, loop_detector, orchestrator_vars, optimizer_vars,
                   compression_vars, llm_calls, workers, unoptimized>>

\* the tools external code hands to register and tool packs export; "\n" in
\* a name is a line feed
NextRegistry ==
    LET ExternalTools ==
          {[name |-> "grep_logs", security_level |-> "safe", origin |-> "pack_a"],
           [name |-> "grep_logs", security_level |-> "unsafe", origin |-> "pack_b"],
           [name |-> "deploy", security_level |-> "unsafe", origin |-> "pack_a"],
           [name |-> "deploy", security_level |-> "approval", origin |-> "pack_b"],
           [name |-> "deploy\n", security_level |-> "safe", origin |-> "pack_b"],
           [name |-> "Deploy", security_level |-> "safe", origin |-> "pack_a"],
           [name |-> "run_command", security_level |-> "safe", origin |-> "pack_a"],
           [name |-> "done", security_level |-> "unsafe", origin |-> "pack_b"]}
    IN  \/ \E tool \in ExternalTools : Register(tool)
        \/ \E n \in 0..MaxPackTools, unsafe \in BOOLEAN :
              \E tools \in [1..n -> ExternalTools] : LoadToolPack(tools, unsafe)

SpecRegistry == InitRegistry /\ [][NextRegistry]_vars


(* ------------------------------------------------------------------ *)
(* The transcript of the task loop, call by call                      *)
(* ------------------------------------------------------------------ *)
\* what the calls on the transcript never touch
transcript_frame ==
    <<outcome, config_vars, approval_vars, resolutions, tasks_status, pre_completed,
      retry_count, result, step_vars, cancel_pending, call_after_cancel,
      abort_pending, start_after_abort, last_marked, compression_vars, registry,
      llm_calls, workers, returned>>

\* run_agent 97-125 in multi-task mode: the planner returned a TaskQueue and
\* the for-loop over its tasks is at its first task
InitTranscript ==
    /\ pc = "task_head"
    /\ \E n \in 1..MaxTasks :
          task_queue = [planned |-> TRUE, tasks |-> [k \in 1..n |-> k]]
    /\ i = 1
    /\ messages = <<>>
    /\ sent = NoRequest
    /\ loop_detector = ConfiguredDetector
    /\ action = NoAction
    /\ unoptimized = 0
    /\ outcome = "running"
    /\ unsafe_mode = FALSE
    /\ session_approved = FALSE
    /\ query_approved = FALSE
    /\ pre_completed = [t \in TaskIds |-> Absent]
    /\ resolutions = <<>>
    /\ tasks_status = <<>>
    /\ retry_count = 0
    /\ result = "none"
    /\ step_msgs = <<>>
    /\ step_reply = "none"
    /\ step_choice = "none"
    /\ step_end = "none"
    /\ last_dispatch = NoDispatch
    /\ tool_raised = FALSE
    /\ cancel_pending = FALSE
    /\ call_after_cancel = FALSE
    /\ abort_pending = FALSE
    /\ start_after_abort = FALSE
    /\ last_marked = [t \in TaskIds |-> Absent]
    /\ text = <<>>
    /\ compression_result = NoCompression
    /\ decompressed = Absent
    /\ registry = <<>>
    /\ llm_calls = <<>>
    /\ workers = <<>>
    /\ returned = NoReturn

\* variant: the next task goes on with the transcript and the detector of
\* the task before
BeginTask_carriesOver ==
    /\ pc = "task_head"
    /\ i <= NumTasks
    /\ messages' = IF messages = <<>>
                   THEN <<SystemMessage, [TaskMessage EXCEPT !.content = TaskIdText(i)]>>
                   ELSE Append(messages, [TaskMessage EXCEPT !.content = TaskIdText(i)])
    /\ pc' = "llm"
    /\ UNCHANGED <<i, sent, loop_detector, action, unoptimized>>
    /\ UNCHANGED transcript_frame

\* run_agent 151-212: the transcript of task i is the system prompt and the
\* seeded user message of that task, with a new ContextOptimizer and a new
\* LoopDetector
BeginTask ==
    /\ pc = "task_head"
    /\ i <= NumTasks
    /\ messages' = <<SystemMessage, [TaskMessage EXCEPT !.content = TaskIdText(i)]>>
    /\ loop_detector' = ConfiguredDetector
    /\ pc' = "llm"
    /\ UNCHANGED <<i, sent, action, unoptimized>>
    /\ UNCHANGED transcript_frame

\* _agent_step 314-345: the model replied and the reply is added; act is the
\* action parsed from it (none when the reply holds no action)
ModelReplies(act, out) ==
    /\ pc = "llm"
    /\ Len(messages) + 3 <= MaxMessages
    /\ LET r == AddMessageResult(messages,
                    [role |-> "assistant", source_action |-> "none",
                     tokens |-> 1, ctokens |-> 1], out)
       IN  messages' = r.messages /\ sent' = r.sent
    /\ unoptimized' = unoptimized + 1
    /\ action' = [NoAction EXCEPT !.name = act]
    /\ pc' = "reply_added"
    /\ UNCHANGED <<i, loop_detector>>
    /\ UNCHANGED transcript_frame

\* optimizer.optimize(messages) at 346, 379, 406, 459, 518 and 667, and what
\* follows it up to the next call on the transcript: after the reply the
\* action is looked at (done raises _AgentDone, which ends the task), after
\* the guidance mark_intervention is called, after a notice or the result
\* _agent_step returns
OptimizeCall(out) ==
    /\ pc \in {"reply_added", "notice_added", "guidance_added", "result_added"}
    /\ LET r == PassTokenSummarization(PassDedupAssistant(messages), out)
       IN  messages' = r.messages /\ sent' = r.sent
    /\ unoptimized' = 0
    /\ pc' = CASE pc = "reply_added" /\ action.name = "done" -> "task_head"
               [] pc = "reply_added" /\ action.name \in {"none", "bogus_tool"} ->
                     "notice_due"
               [] pc = "reply_added" /\ action.name \in {"read_file", "run_command"} ->
                     "dispatch"
               [] pc = "guidance_added" -> "result_due"
               [] OTHER -> "llm"
    /\ i' = IF pc = "reply_added" /\ action.name = "done" THEN i + 1 ELSE i
    /\ loop_detector' = IF pc = "guidance_added" THEN MarkIntervention(loop_detector)
                        ELSE loop_detector
    /\ UNCHANGED action
    /\ UNCHANGED transcript_frame

\* _agent_step 410-496: the approval prompt of run_command (declined: a notice
\* is due), the tool call, record_action and check_for_loops
DispatchTool(declined, was_error) ==
    /\ pc = "dispatch"
    /\ loop_detector.iteration_count < MaxDispatch
    /\ declined => action.name = "run_command"
    /\ IF declined
       THEN pc' = "notice_due" /\ UNCHANGED loop_detector
       ELSE LET ld == RecordAction(loop_detector, action.name, action.params, was_error)
            IN  /\ loop_detector' = ld
                /\ pc' = IF CheckForLoops(ld).is_loop_detected
                            /\ ShouldAskForIntervention(ld)
                         THEN "intervention" ELSE "result_due"
    /\ UNCHANGED <<i, messages, sent, action, unoptimized>>
    /\ UNCHANGED transcript_frame

\* _handle_loop_detection: guidance is added to the transcript, continuing or
\* an empty guidance marks the intervention, aborting raises _AgentDone
HandleLoopDetection(choice, out) ==
    /\ pc = "intervention"
    /\ CASE choice = "guidance" ->
              /\ LET r == AddMessageResult(messages,
                              [role |-> "user", source_action |-> "none",
                               tokens |-> 1, ctokens |-> 1], out)
                 IN  messages' = r.messages /\ sent' = r.sent
              /\ unoptimized' = unoptimized + 1
              /\ pc' = "guidance_added"
              /\ UNCHANGED <<i, loop_detector>>
         [] choice = "continue" ->
              /\ loop_detector' = MarkIntervention(loop_detector)
              /\ pc' = "result_due"
              /\ UNCHANGED <<i, messages, sent, unoptimized>>
         [] choice = "abort" ->
              /\ pc' = "task_head"
              /\ i' = i + 1
              /\ UNCHANGED <<loop_detector, messages, sent, unoptimized>>
    /\ UNCHANGED action
    /\ UNCHANGED transcript_frame

\* variant: _agent_step returns right after adding a notice
AddUserMessage_returnsEarly(out) ==
    /\ pc \in {"notice_due", "result_due"}
    /\ LET r == AddMessageResult(messages,
                    [role |-> "user",
                     source_action |-> IF pc = "result_due" THEN action.name
                                       ELSE "none",
                     tokens |-> 1, ctokens |-> 1], out)
       IN  messages' = r.messages /\ sent' = r.sent
    /\ unoptimized' = unoptimized + 1
    /\ pc' = IF pc = "result_due" THEN "result_added" ELSE "llm"
    /\ UNCHANGED <<i, loop_detector, action>>
    /\ UNCHANGED transcript_frame

\* optimizer.add_message at 367, 377, 405 and 458 (a notice to the model: no
\* action found, action not available, command declined) and at 513 (the
\* action result, with source_action)
AddUserMessage(out) ==
    /\ pc \in {"notice_due", "result_due"}
    /\ LET r == AddMessageResult(messages,
                    [role |-> "user",
                     source_action |-> IF pc = "result_due" THEN action.name
                                       ELSE "none",
                     tokens |-> 1, ctokens |-> 1], out)
       IN  messages' = r.messages /\ sent' = r.sent
    /\ unoptimized' = unoptimized + 1
    /\ pc' = IF pc = "result_due" THEN "result_added" ELSE "notice_added"
    /\ UNCHANGED <<i, loop_detector, action>>
    /\ UNCHANGED transcript_frame

NextTranscript ==
    \/ BeginTask
    \/ \E act \in {"none", "bogus_tool", "done", "read_file", "run_command"},
          out \in {"summary", "error"} : ModelReplies(act, out)
    \/ \E out \in {"summary", "error"} : OptimizeCall(out)
    \/ \E declined \in BOOLEAN, was_error \in BOOLEAN : DispatchTool(declined, was_error)
    \/ \E choice \in {"guidance", "continue", "abort"}, out \in {"summary", "error"} :
          HandleLoopDetection(choice, out)
    \/ \E out \in {"summary", "error"} : AddUserMessage(out)

SpecTranscript == InitTranscript /\ [][NextTranscript]_vars


(* ------------------------------------------------------------------ *)
(* Properties                                                         *)
(* ------------------------------------------------------------------ *)
\* positions of run_agent inside the inner while True loop of a task
InnerLoopPcs == {"llm", "approve", "feedback", "intervene", "guidance"}

\* the entries of TaskList.resolutions recorded for task t
ResolutionsFor(t) == SelectSeq(resolutions, LAMBDA r : r.task_id = t)

\* the loop-intervention prompt is due for the detector state
InterventionDue(ld) ==
    CheckForLoops(ld).is_loop_detected /\ ShouldAskForIntervention(ld)

\* C1: a task that an earlier task's inner loop marked done ahead of schedule
\* has no resolution before the orchestrator reaches it, is never inside the
\* inner loop (so no model call and no dispatch is made for it), and once the
\* orchestrator is past it has exactly one resolution, the stored summary.
C1_PreCompletedRecordedOnce ==
    \A t \in 1..NumTasks :
        last_marked[t] # Absent =>
            /\ (i = t => pc \notin InnerLoopPcs)
            /\ (i <= t => ResolutionsFor(t) = <<>>)
            /\ (i > t => ResolutionsFor(t) =
                            <<[task_id |-> t, task_description |-> t,
                               resolution |-> last_marked[t],
                               notes |-> "ahead"]>>)

\* C1 case: a task was marked ahead of schedule and the orchestrator has
\* passed it, with its one resolution recorded
C1_Witness ==
    \E t \in 1..NumTasks :
        last_marked[t] # Absent /\ i > t /\ Len(ResolutionsFor(t)) = 1

\* C2: when a multi-task run has reached final synthesis, every task of the
\* queue has exactly one recorded resolution.
C2_EveryTaskResolvedAtSynthesis ==
    outcome = "completed" =>
        \A t \in 1..NumTasks : Len(ResolutionsFor(t)) = 1

\* C3: after a user cancellation no model call is made and no tool is
\* dispatched.
C3_NoWorkAfterCancel == ~call_after_cancel

\* C4: no exception leaves run_agent.
C4_NothingEscapes == outcome # "escaped"

\* C5: after abort at the loop-intervention prompt or /exit at the approval
\* prompt no inner loop of a later task is started.
C5_AbortEndsRun == ~start_after_abort

\* C6: a dispatched run_command was approved at that step (approve once or
\* approve for the session), or the session flag or the per-request flag was
\* set when the step began, or the configuration is in unsafe mode.
C6_RunCommandOnlyWhenApproved ==
    last_dispatch.name = "run_command" =>
        \/ last_dispatch.choice \in {"y", "a"}
        \/ last_dispatch.session_before
        \/ last_dispatch.query_before
        \/ unsafe_mode

\* C6 case: a run_command dispatched on the strength of an approve-once answer
\* alone
C6_Witness ==
    /\ last_dispatch.name = "run_command"
    /\ last_dispatch.choice = "y"
    /\ ~last_dispatch.session_before
    /\ ~last_dispatch.query_before
    /\ ~unsafe_mode

C8_CeilingStopsDispatch ==
    loop_detector.iteration_count <= loop_detector.max_iterations

\* C9 (as stated): after a tool raised, the exception does not leave
\* run_agent, and the step either waits at the intervention prompt or ends with
\* the error text appended and the loop at its next model call.
C9_ErrorAlwaysFedBack ==
    tool_raised =>
        /\ outcome # "escaped"
        /\ \/ pc \in {"intervene", "guidance"}
           \/ /\ step_end = "continue"
              /\ pc = "llm"
              /\ step_msgs[Len(step_msgs)] = "result_error"

\* C9 (amended): after a tool raised, the exception does not leave run_agent,
\* and the step either waits at the intervention prompt, or ends with the
\* error text appended and the loop at its next model call, or was ended at
\* the intervention prompt that was due at that step, the error text produced
\* but not appended.
C9_ErrorFedBackUnlessLoopEnded ==
    tool_raised =>
        /\ outcome # "escaped"
        /\ \/ pc \in {"intervene", "guidance"}
           \/ /\ step_end = "continue"
              /\ pc = "llm"
              /\ step_msgs[Len(step_msgs)] = "result_error"
           \/ /\ step_end = "done"
              /\ result = "result_error"
              /\ InterventionDue(loop_detector)

\* C9 case: a tool raised, the error text was appended and the loop is at its
\* next model call
C9_Witness ==
    /\ tool_raised
    /\ step_end = "continue"
    /\ pc = "llm"
    /\ step_msgs[Len(step_msgs)] = "result_error"

\* C10: a reply without a parseable action, or with an action name outside
\* the allowed set, ends its step with exactly one corrective message after
\* the assistant message, no dispatch, and the loop at its next model call.
C10_BadReplyOnlyCorrects ==
    (step_reply \in {"noaction_long", "noaction_short", "unhashable",
                     "bogus_tool", "release_tag_create"}
     /\ step_end # "none") =>
        /\ step_end = "continue"
        /\ pc = "llm"
        /\ outcome = "running"
        /\ last_dispatch.name = "none"
        /\ Len(step_msgs) = 2
        /\ step_msgs[2] \in {"nudge", "format_retry", "reject"}

\* C11: a step in which the user answered "n" at the approval prompt and then
\* answered the feedback prompt (with text or with Enter) ends with the
\* command not dispatched, exactly one corrective message after the assistant
\* message, and the inner loop at its next model call.
C11_DeclineCorrectsAndContinues ==
    (step_choice = "n" /\ pc # "feedback" /\ step_end # "cancelled") =>
        /\ step_end = "continue"
        /\ pc = "llm"
        /\ outcome = "running"
        /\ last_dispatch.name = "none"
        /\ step_msgs = <<"assistant", "declined">>

\* C11 case: a run_command was declined and the loop is at its next model call
C11_Witness ==
    /\ step_reply = "run_command"
    /\ step_choice = "n"
    /\ step_end = "continue"
    /\ pc = "llm"

\* C12: a step whose reply is the done action ends the inner loop at once
\* (in multi-task mode the orchestrator moves to the next task, in single-task
\* mode run_agent returns), and in multi-task mode the summary of the done
\* action is appended as the resolution of the task that was running.
C12_DoneEndsLoopAndRecordsSummary ==
    [][(pc = "llm" /\ step_reply' = "done") =>
          IF Multi
          THEN /\ pc' = "task_head"
               /\ i' = i + 1
               /\ resolutions' =
                     Append(resolutions,
                            [task_id |-> i, task_description |-> i,
                             resolution |-> action'.summary,
                             notes |-> "discoveries"])
          ELSE pc' = "ended" /\ outcome' = "done"]_vars

\* C13: a failed attempt of a model request is attempt number
\* retry_count + 1 <= max_retries + 1; when it is not the last one the user is
\* asked and either retries (one more attempt of the same request) or the run
\* ends as a cancellation; when it is the last one no prompt is answered and
\* the failure leaves as the fatal LLMRequestError.
C13_BoundedRetries ==
    [][(pc = "llm" /\ step_reply' = "none") =>
          /\ retry_count <= max_retries
          /\ IF retry_count = max_retries
             THEN /\ step_choice' = "none"
                  /\ pc' = "ended"
                  /\ outcome' = "escaped"
             ELSE \/ /\ step_choice' = "retry"
                     /\ pc' = "llm"
                     /\ retry_count' = retry_count + 1
                     /\ outcome' = outcome
                  \/ /\ step_choice' \in {"abort", "cancel"}
                     /\ pc' = "ended"
                     /\ outcome' = "cancelled"]_vars

\* C13 case: max_retries attempts of one request failed, the user answered
\* retry each time, and the last attempt is about to be made
C13_Witness ==
    pc = "llm" /\ retry_count = max_retries /\ step_choice = "retry"

\* C14: the orchestrator works on one task index at a time, indices are
\* visited in queue order, every recorded resolution belongs to a task already
\* left behind, and the resolutions list is in task order: the resolution of
\* an earlier task precedes that of a later one, also when the later one was
\* marked done ahead of schedule.
C14_ResolutionsInTaskOrder ==
    Multi =>
        /\ i \in 1..(NumTasks + 1)
        /\ \A a \in DOMAIN resolutions : resolutions[a].task_id < i
        /\ \A a, b \in DOMAIN resolutions :
              resolutions[a].task_id < resolutions[b].task_id => a < b

\* C14 case: task 2 was marked done while task 1 was running, and both
\* resolutions are recorded
C14_Witness ==
    /\ Len(resolutions) = 2
    /\ resolutions[1].task_id = 1
    /\ resolutions[2].task_id = 2
    /\ resolutions[2].notes = "ahead"

\* C15: no task id appears more than once among the resolutions.
C15_OneResolutionPerTask ==
    \A a, b \in DOMAIN resolutions :
        resolutions[a].task_id = resolutions[b].task_id => a = b

\* C15 case: a finished run of MaxTasks tasks in which the first task had been
\* marked done (by its own loop or a later one) as well as resolved by done,
\* and every task has a resolution
C15_Witness ==
    /\ outcome = "completed"
    /\ NumTasks = MaxTasks
    /\ Len(resolutions) = NumTasks
    /\ pre_completed[1] # Absent

\* C16: in a TaskList built by initialize_from_task_queue and updated only by
\* record_task_resolution, a task is completed exactly when a resolution with
\* its id has been recorded.
C16_CompletedIffResolved ==
    pc = "task_list" =>
        \A t \in DOMAIN tasks_status :
            tasks_status[t] = "completed" <=> ResolutionsFor(t) # <<>>

\* C16 case: of two tasks one is resolved (twice) and completed, the other is
\* pending, and a resolution for an id no task has was recorded as well
C16_Witness ==
    /\ pc = "task_list"
    /\ DOMAIN tasks_status = 1..2
    /\ tasks_status[1] = "completed"
    /\ tasks_status[2] = "pending"
    /\ Len(ResolutionsFor(1)) = 2
    /\ Len(resolutions) = 3

\* the last n messages of a transcript
LastMessages(msgs, n) == SubSeq(msgs, Len(msgs) - n + 1, Len(msgs))

\* C17: whatever add_message and optimize calls are made, index 0 of the
\* transcript stays the system message it started with, and an optimize call
\* that summarizes the middle section leaves the 4 most recent messages where
\* they were, unchanged.
C17_SystemAndRecentKept ==
    /\ [](pc \in OptimizerPcs => Len(messages) >= 1 /\ messages[1] = SystemMessage)
    /\ [][(pc' = "optimized" /\ sent'.purpose = "middle_section") =>
            /\ Len(messages) >= KeepTail /\ Len(messages') >= KeepTail
            /\ LastMessages(messages', KeepTail) = LastMessages(messages, KeepTail)]_vars

\* C17 case: an optimize call summarized the middle of a transcript that ends
\* with a compressed run_command result
C17_Witness ==
    /\ pc = "optimized"
    /\ sent.purpose = "middle_section"
    /\ messages[1] = SystemMessage
    /\ messages[KeepHead + 1].content = "context_summary"
    /\ Len(messages) = KeepHead + 1 + KeepTail
    /\ messages[Len(messages)].content = "compressed"

\* C18: after every optimize pass the transcript's estimated token total is at
\* most token_threshold.
C18_WithinTokenBudget ==
    pc = "optimized" => TotalTokens(messages) <= CfgTokenThreshold

\* C19: no request to the model backend carries compressed content or
\* provenance fields: neither the completion call nor the optimizer's
\* summarization calls.
C19_BackendNeverSeesCompressed ==
    sent.purpose # "none" => ~sent.compressed /\ ~sent.provenance

\* C20: decompressing what compress_text returned, with the dictionary it
\* returned, gives the original text back, for every text: texts without
\* compressible patterns, texts in which a replaced pattern is immediately
\* followed by a digit, dictionaries of ten or more entries.
C20_RoundTrip ==
    pc = "decompressed" => decompressed = text

\* the last n records of the window have the same action name and parameters
LastSame(ld, n) ==
    LET h == ld.action_history
    IN  /\ Len(h) >= n
        /\ \A j \in (Len(h) - n + 1)..Len(h) : h[j] = h[Len(h)]

\* the last n records of the window have the first one's action name and
\* parameters similar to the first one's
LastSimilar(ld, n) ==
    LET h == ld.action_history
    IN  /\ Len(h) >= n
        /\ \A j \in (Len(h) - n + 1)..Len(h) :
              /\ h[j].action_name = h[Len(h) - n + 1].action_name
              /\ ParamsSimilar(h[j].parameters, h[Len(h) - n + 1].parameters)

\* C22 as stated: with repetition_threshold = 3, whenever the same action name
\* and parameters were recorded 3 times in a row check_for_loops() reports
\* action_repetition, and it does not when they were recorded only 2 times
C22_RepetitionAtThree ==
    (returned.call = "check_for_loops" /\ loop_detector.repetition_threshold = 3) =>
        /\ LastSame(loop_detector, 3) =>
              returned.value.loop_type = "action_repetition"
        /\ ~LastSimilar(loop_detector, 3) =>
              returned.value.loop_type # "action_repetition"

\* C22 amended: with repetition_threshold = 3, check_for_loops() reports
\* action_repetition when the window's last 3 records have the same action
\* name and parameters and neither the iteration limit nor the error threshold
\* is reached; it never reports it when the window holds fewer than 3 records
\* or its last 3 records are not the same action with similar parameters
C22_RepetitionAtThreeUnlessPreempted ==
    (returned.call = "check_for_loops" /\ loop_detector.repetition_threshold = 3) =>
        /\ ( /\ LastSame(loop_detector, 3)
             /\ loop_detector.iteration_count < loop_detector.max_iterations
             /\ loop_detector.consecutive_errors < loop_detector.error_threshold )
           => returned.value.loop_type = "action_repetition"
        /\ ~LastSimilar(loop_detector, 3) =>
              returned.value.loop_type # "action_repetition"

\* three identical successful actions are reported as action_repetition
C22_Witness ==
    /\ returned.call = "check_for_loops"
    /\ loop_detector.repetition_threshold = 3
    /\ LastSame(loop_detector, 3)
    /\ loop_detector.iteration_count = 3
    /\ loop_detector.consecutive_errors = 0
    /\ returned.value.loop_type = "action_repetition"

\* C23: with max_iterations = N, check_for_loops() reports iteration_limit
\* exactly when at least N actions have been recorded: every record_action
\* adds one to the count check_for_loops compares with N, mark_intervention
\* leaves that count alone, and the count starts at 0
C23_IterationLimitAtN ==
    /\ [](pc = "loop_detector" =>
            /\ returned.call = "none" => loop_detector.iteration_count = 0
            /\ returned.call = "check_for_loops" =>
                 (returned.value.loop_type = "iteration_limit"
                    <=> loop_detector.iteration_count >= loop_detector.max_iterations))
    /\ [][pc = "loop_detector" =>
            /\ returned'.call = "record_action" =>
                 loop_detector'.iteration_count = loop_detector.iteration_count + 1
            /\ returned'.call # "record_action" =>
                 loop_detector'.iteration_count = loop_detector.iteration_count]_vars

\* the N-th action was recorded after an intervention and the limit is reported
C23_Witness ==
    /\ returned.call = "check_for_loops"
    /\ loop_detector.iteration_count = loop_detector.max_iterations
    /\ loop_detector.last_user_intervention > 0
    /\ returned.value.loop_type = "iteration_limit"

\* C30: check_for_loops returns the first check that matches in the order
\* iteration_limit (the count reached max_iterations), error_cycle (the error
\* streak reached error_threshold), action_repetition (the last
\* repetition_threshold records are one action with similar parameters),
\* pattern (the last 3 x pattern_length action names repeat with period
\* pattern_length), and no loop only when none of the four matches
C30_PriorityOrder ==
    LET ld == loop_detector
        h == ld.action_history
        pl == ld.pattern_length
        pattern == /\ Len(h) >= 3 * pl
                   /\ \A j \in (Len(h) - 3 * pl + 1)..(Len(h) - pl) :
                          h[j].action_name = h[j + pl].action_name
    IN  returned.call = "check_for_loops" =>
          returned.value.loop_type =
            IF ld.iteration_count >= ld.max_iterations THEN "iteration_limit"
            ELSE IF ld.consecutive_errors >= ld.error_threshold THEN "error_cycle"
            ELSE IF LastSimilar(ld, ld.repetition_threshold) THEN "action_repetition"
            ELSE IF pattern THEN "pattern"
            ELSE "none"

\* the iteration limit, the error threshold and a repetition are reached at
\* once and iteration_limit is reported
C30_Witness ==
    /\ returned.call = "check_for_loops"
    /\ loop_detector.iteration_count >= loop_detector.max_iterations
    /\ loop_detector.consecutive_errors >= loop_detector.error_threshold
    /\ LastSimilar(loop_detector, loop_detector.repetition_threshold)
    /\ returned.value.loop_type = "iteration_limit"

\* C24: when the reply to the analysis prompt parses to an object whose
\* needs_planning is false, maybe_plan returns None and the analysis call is
\* the only model call it made
C24_NoPlanningNoFurtherCall ==
    ( /\ returned.call = "maybe_plan"
      /\ Len(llm_calls) >= 1
      /\ llm_calls[1].reply.json
      /\ "needs_planning" \in DOMAIN llm_calls[1].reply.object
      /\ llm_calls[1].reply.object["needs_planning"] = "false" )
    => /\ returned.value.kind = "None"
       /\ Len(llm_calls) = 1
       /\ llm_calls[1].prompt = "analysis"

\* an enabled planner was told needs_planning = false and returned None
\* after the single analysis call
C24_Witness ==
    /\ returned.call = "maybe_plan"
    /\ Len(llm_calls) = 1
    /\ llm_calls[1].reply.object = [needs_planning |-> "false"]
    /\ returned.value.kind = "None"

\* C25: once a tool name is registered, the ToolDefinition and the security
\* level it resolves to never change: no register or load_tool_pack call
\* replaces or removes a registered tool
C25_RegisteredToolsNeverChange ==
    [][pc = "registry" =>
         \A n \in DOMAIN registry :
            n \in DOMAIN registry' /\ registry'[n] = registry[n]]_vars

C27_UnsafeSkippedOthersLoaded ==
    [][(pc = "registry" /\ returned'.call = "load_tool_pack"
        /\ ~returned'.unsafe_mode)
       => LET tools == returned'.tools
              loaded == returned'.value
              valid(t) == /\ MatchesToolNamePattern(Chars(t.name))
                          /\ t.name \notin RESERVED_TOOL_NAMES
          IN  /\ \A n \in DOMAIN registry' :
                    (n \notin DOMAIN registry \/ registry'[n] # registry[n])
                       => registry'[n].security_level # "unsafe"
              /\ \A k \in 1..Len(loaded) :
                    \E j \in 1..Len(tools) :
                       /\ tools[j].name = loaded[k]
                       /\ tools[j].security_level # "unsafe"
              /\ \A j \in 1..Len(tools) :
                    (valid(tools[j]) /\ tools[j].security_level # "unsafe")
                       => /\ \E k \in 1..Len(loaded) : loaded[k] = tools[j].name
                          /\ tools[j].name \in DOMAIN registry'
                          /\ registry'[tools[j].name].security_level # "unsafe"
                          /\ \E m \in 1..Len(tools) :
                                registry'[tools[j].name] = tools[m]]_vars

\* a pack with an unsafe tool and a safe tool was loaded without unsafe_mode:
\* only the safe tool is registered and reported
C27_Witness ==
    /\ returned.call = "load_tool_pack"
    /\ ~returned.unsafe_mode
    /\ Len(returned.tools) = 2
    /\ returned.tools[1].security_level = "unsafe"
    /\ returned.tools[1].name = "deploy"
    /\ returned.tools[2].name = "grep_logs"
    /\ returned.tools[2].security_level = "safe"
    /\ returned.value = <<"grep_logs">>
    /\ "deploy" \notin DOMAIN registry
    /\ registry["grep_logs"] = returned.tools[2]

\* the pieces of wanted occur in text in the order of wanted
RECURSIVE ContainsInOrder(_, _)
ContainsInOrder(content, wanted) ==
    IF wanted = <<>> THEN TRUE
    ELSE IF content = <<>> THEN FALSE
    ELSE IF content[1] = wanted[1] THEN ContainsInOrder(Tail(content), Tail(wanted))
    ELSE ContainsInOrder(Tail(content), wanted)

\* C28: get_previous_resolutions_context returns the sentinel text exactly
\* when no resolution has been recorded, and otherwise a text in which the
\* task id and the description of every recorded resolution occur, resolution
\* after resolution in recording order
C28_ContextListsResolutionsInOrder ==
    returned.call = "get_previous_resolutions_context" =>
        LET n == Len(resolutions)
            wanted == [k \in 1..(2 * n) |->
                         IF k % 2 = 1 THEN TaskIdText(resolutions[(k + 1) \div 2].task_id)
                         ELSE resolutions[k \div 2].task_description]
        IN  /\ (returned.value = <<"No previous task resolutions yet.">>) <=> (n = 0)
            /\ n > 0 => ContainsInOrder(returned.value, wanted)

\* the context was built from two resolutions of different tasks
C28_Witness ==
    /\ returned.call = "get_previous_resolutions_context"
    /\ Len(resolutions) = 2
    /\ resolutions[1].task_id # resolutions[2].task_id
    /\ resolutions[1].task_description # resolutions[2].task_description
    /\ resolutions[1].notes # ""
    /\ returned.value # <<"No previous task resolutions yet.">>

\* C21: in the agent loop no add_message call is made while an earlier one is
\* still waiting for its optimize call: every insertion happens with nothing
\* un-optimized, at most one insertion is ever un-optimized, and _agent_step
\* is never left (back at the model call or at the head of the task loop)
\* with an insertion un-optimized
C21_OptimizeAfterEveryInsertion ==
    /\ [](pc \in {"task_head", "llm", "reply_added", "notice_due", "notice_added",
                  "dispatch", "intervention", "guidance_added", "result_due",
                  "result_added"}
            => /\ unoptimized <= 1
               /\ pc \in {"task_head", "llm"} => unoptimized = 0)
    /\ [][Len(messages') > Len(messages) /\ pc # "task_head"
            => unoptimized = 0]_vars

\* the guidance of an intervention was added and optimized, and the result
\* of the action is about to be added
C21_Witness ==
    /\ pc = "result_due"
    /\ loop_detector.last_user_intervention > 0
    /\ Len(messages) >= 4
    /\ unoptimized = 0

\* C29: the inner loop of every task starts with a transcript of exactly two
\* messages, the system prompt and the seeded user message of that task, and
\* with a LoopDetector whose iteration_count and consecutive_errors are 0 and
\* whose window is empty; no message of the task before is in the transcript
\* but the system prompt
C29_FreshStatePerTask ==
    [][(pc = "task_head" /\ pc' = "llm")
       => /\ Len(messages') = 2
          /\ messages'[1] = SystemMessage
          /\ messages'[2].role = "user"
          /\ messages'[2].content = TaskIdText(i)
          /\ \A k \in DOMAIN messages : messages[k] # messages'[2]
          /\ loop_detector'.iteration_count = 0
          /\ loop_detector'.consecutive_errors = 0
          /\ loop_detector'.action_history = <<>>
          /\ loop_detector'.last_user_intervention = 0]_vars

\* the second task has started: two messages and an unused detector
C29_Witness ==
    /\ pc = "llm"
    /\ i = 2
    /\ Len(messages) = 2
    /\ messages[2].content = TaskIdText(2)
    /\ loop_detector = ConfiguredDetector

\* C31: an action_repetition result is critical only once the number of
\* records of the window that match the repeated action (same name, similar
\* parameters) exceeds repetition_threshold + 2; while that number is at most
\* repetition_threshold + 2 the result is a warning
C31_CriticalAboveThresholdPlusTwo ==
    LET ld == loop_detector
        h == ld.action_history
        first == h[Len(h) - ld.repetition_threshold + 1]
        total_count ==
            Cardinality({j \in 1..Len(h) :
                            /\ h[j].action_name = first.action_name
                            /\ ParamsSimilar(h[j].parameters, first.parameters)})
    IN  ( /\ returned.call = "check_for_loops"
          /\ returned.value.loop_type = "action_repetition" ) =>
            returned.value.severity =
                IF total_count > ld.repetition_threshold + 2
                THEN "critical" ELSE "warning"

C33_CriticalAtThreeRepetitions ==
    LET ld == loop_detector
        h == ld.action_history
        pl == ld.pattern_length
    IN  ( /\ returned.call = "check_for_loops"
          /\ ld.iteration_count < ld.max_iterations
          /\ ld.consecutive_errors < ld.error_threshold
          /\ ~LastSimilar(ld, ld.repetition_threshold)
          /\ Len(h) >= 4 * pl
          /\ \A j \in (Len(h) - 4 * pl + 1)..(Len(h) - pl) :
                h[j].action_name = h[j + pl].action_name )
        => /\ returned.value.loop_type = "pattern"
           /\ returned.value.severity = "critical"

\* C34: within one inner loop the intervention prompt is issued only when at
\* least 5 actions were recorded since the last intervention, or since the
\* loop started when there was none: a new loop starts with both counts at 0,
\* the prompt comes up only at a distance of 5 or more, every prompt the loop
\* survives is followed by mark_intervention, which sets the mark to the
\* current count and consecutive_errors to 0 and leaves iteration_count and
\* the window as they are, and no other step moves the mark
C34_InterventionEveryFiveActions ==
    [][ LET ld == loop_detector
            marked == loop_detector' =
                         [ld EXCEPT !.last_user_intervention = ld.iteration_count,
                                    !.consecutive_errors = 0]
        IN  /\ (pc = "task_head" /\ pc' = "llm") =>
                 /\ loop_detector'.iteration_count = 0
                 /\ loop_detector'.last_user_intervention = 0
            /\ (pc # "intervention" /\ pc' = "intervention") =>
                 loop_detector'.iteration_count
                    - loop_detector'.last_user_intervention >= 5
            /\ pc = "intervention" =>
                 \/ pc' = "task_head"
                 \/ pc' = "guidance_added" /\ loop_detector' = ld
                 \/ pc' = "result_due" /\ marked
            /\ pc = "guidance_added" => marked
            /\ pc \notin {"task_head", "intervention", "guidance_added"} =>
                 loop_detector'.last_user_intervention = ld.last_user_intervention
      ]_vars

\* after an intervention at the fifth action the sixth action is flagged as
\* well, and no prompt is issued for it
C34_Witness ==
    /\ pc = "result_due"
    /\ loop_detector.last_user_intervention = 5
    /\ loop_detector.iteration_count = 6
    /\ CheckForLoops(loop_detector).is_loop_detected

\* C35: in every dictionary compress_text returns the tokens are pairwise
\* distinct and no selected pattern is a substring of another selected pattern
C35_DictionaryTokensAndPatternsDistinct ==
    pc \in {"compressed", "decompressed"} =>
        \A p, q \in DOMAIN compression_result.dictionary :
            p # q =>
              /\ Token(p - 1) # Token(q - 1)
              /\ ~IsSubstring(compression_result.dictionary[p],
                              compression_result.dictionary[q])

\* a text in which one frequent phrase is part of a longer frequent phrase
\* was compressed to a dictionary of several entries
C35_Witness ==
    /\ pc = "compressed"
    /\ Len(compression_result.dictionary) >= 2
    /\ \E p, q \in DOMAIN FindFrequentPatterns(text) :
          /\ p # q
          /\ IsSubstring(FindFrequentPatterns(text)[p], FindFrequentPatterns(text)[q])

\* C36: whenever maybe_plan returns a TaskQueue, its task list is not empty
\* and its system_prompt is the one passed in; when the generated checklist
\* has no bullet line with a description the list is the whole checklist text
\* as one task, and when the checklist is empty it is the request as the one
\* task
C36_TaskQueueHasTasksAndPrompt ==
    ( /\ returned.call = "maybe_plan"
      /\ returned.value.kind = "TaskQueue" ) =>
        LET generated == llm_calls[Len(llm_calls)].reply.object
            checklist == IF "tasks" \in DOMAIN generated THEN generated["tasks"]
                         ELSE <<>>
            tasks == returned.value.tasks
        IN  /\ Len(tasks) >= 1
            /\ returned.value.system_prompt = returned.system_prompt
            /\ llm_calls[Len(llm_calls)].prompt = "generation"
            /\ IF checklist = <<>>
               THEN tasks = <<returned.task>>
               ELSE IF \A k \in DOMAIN checklist :
                          ~checklist[k].bullet \/ checklist[k].desc = ""
               THEN /\ Len(tasks) = 1
                    /\ \A k \in DOMAIN tasks[1] :
                          \E j \in DOMAIN checklist : tasks[1][k] = checklist[j]
                    /\ \A j \in DOMAIN checklist :
                          checklist[j].desc # "" =>
                             \E k \in DOMAIN tasks[1] : tasks[1][k] = checklist[j]
               ELSE \A k \in DOMAIN tasks :
                       \E j \in DOMAIN checklist :
                          checklist[j].bullet /\ checklist[j].desc = tasks[k]

\* a plan came without a checklist and the request became the only task
C36_Witness ==
    /\ returned.call = "maybe_plan"
    /\ returned.value.kind = "TaskQueue"
    /\ "tasks" \notin DOMAIN llm_calls[3].reply.object
    /\ returned.value.tasks = <<"request">>
    /\ returned.value.system_prompt = "prompt_b"

\* C37: every inner loop makes a bounded number of model calls before it
\* terminates or pauses for the user: a loop that is about to call the model
\* does not go on calling it forever, it comes to the end of the loop or to a
\* prompt
C37_InnerLoopLeavesModelCalls ==
    (pc = "llm") ~> (pc # "llm")

\* C38: under the default configuration an agent that cycles through the same
\* 10 distinct error-free actions is flagged with loop_type pattern before
\* the iteration ceiling is reached
C38_DefaultCycleFlaggedAsPattern ==
    <>( /\ returned.call = "check_for_loops"
        /\ returned.value.loop_type = "pattern"
        /\ loop_detector.iteration_count < loop_detector.max_iterations )

\* C39: at most one model request of the agent loop is in flight at any time
\* (no thread of an earlier request, cancelled or failed, is still running
\* when a new request is started), and the reply appended to the transcript
\* never comes from a thread whose request was abandoned
C39_OneRequestInFlight ==
    /\ Cardinality({k \in DOMAIN workers : workers[k].state = "running"}) <= 1
    /\ \A m \in DOMAIN messages :
          "worker" \in DOMAIN messages[m] => ~workers[messages[m].worker].abandoned

\* C40: a mark_task_done step changes no recorded resolution and no task
\* status and leaves the inner loop of the same task running (at the next
\* model call or at the intervention prompt); a task that was marked while
\* it was running or after it was processed never gets a second resolution,
\* and recorded resolutions never change; in single-task mode the step
\* yields an error result and leaves the task state as it was
C40_MarkTaskDoneOnCurrentOrProcessed ==
    /\ [](\A a, b \in DOMAIN resolutions :
              resolutions[a].task_id = resolutions[b].task_id => a = b)
    /\ [][ /\ Len(resolutions') >= Len(resolutions)
           /\ \A k \in DOMAIN resolutions : resolutions'[k] = resolutions[k]
           /\ (pc = "llm" /\ step_reply' = "mark_task_done") =>
                /\ resolutions' = resolutions
                /\ tasks_status' = tasks_status
                /\ i' = i
                /\ task_queue' = task_queue
                /\ outcome' = outcome
                /\ pc' \in {"llm", "intervene"}
                /\ ~Multi =>
                     /\ pre_completed' = pre_completed
                     /\ \/ step_msgs' = <<"assistant", "result_errtext">>
                        \/ pc' = "intervene" /\ result' = "result_errtext"
         ]_vars

\* the last task was marked done by its own inner loop, never while it was
\* ahead, went on to done, and the finished run holds one resolution for it,
\* the one of done
C40_Witness ==
    /\ outcome = "completed"
    /\ NumTasks = MaxTasks
    /\ pre_completed[NumTasks] # Absent
    /\ last_marked[NumTasks] = Absent
    /\ Len(ResolutionsFor(NumTasks)) = 1
    /\ ResolutionsFor(NumTasks)[1].notes = "discoveries"

====
